---- MODULE Spec2Model ----
(***************************************************************************)
(* A model of the Stegohub steganographic codec engine                     *)
(* (src/src/utils/steganography.ts, src/src/utils/audio.ts, the DCT module *)
(* src/unnamed/part_006 and the DWT module src/unnamed/part_007).          *)
(*                                                                         *)
(* Conventions.  JavaScript strings are sequences of UTF-16 code units     *)
(* (naturals); bit strings ("0101...") are sequences over {0, 1}; arrays   *)
(* are 1-based sequences here and 0-based in the source, so the source     *)
(* index i is position i + 1.  A carrier image is the ImageData the canvas *)
(* hands to the codec: width, height and the flat RGBA byte buffer.        *)
(***************************************************************************)
EXTENDS Integers, Sequences, FiniteSets, TLC

VARIABLES
    carrier,    \* the input carrier (an ImageData, or an AudioBuffer)
    message,    \* the message argument of the encode call
    pc,         \* "input" | "encoded" | "rejected" | "decoded"
    encoder,    \* name of the encode function that ran, or "none"
    stego,      \* the carrier the encode call resolved with, or NoCarrier
    encError,   \* the Error the encode call rejected with, or NoError
    decoder,    \* name of the decode function that ran, or "none"
    decSource,  \* "stego" | "carrier": which buffer the decode call was given
    decResult,  \* what the decode call settled with
    request,    \* the last encodeMessage / decodeMessage call, or NoRequest
    calls,      \* codec functions that call invoked, in order
    algArgs,    \* the algorithm argument the encode call and the decode call
                \* were given, "none" for a call without one
    rounding,   \* how the platform's floating point resolves Math.round at an
                \* argument that is an exact tie in real arithmetic
    parity,     \* one coefficient going through embedInDCT / embedInDWT and
                \* the extractor's parity test
    auth,       \* AuthProvider: its React state and the asynchronous
                \* continuations that are pending
    enc,        \* StegoEncoder: its React state and the position of the
                \* handleEncode run
    dec,        \* StegoDecoder: the busy flag and the position of the
                \* handleDecode run
    cloud,      \* Supabase: the client's session, storage objects, files
                \* rows, stego_history rows
    upl         \* the uploadFile run: its position, locals and outcome

codecVars == <<carrier, message, pc, encoder, stego, encError, decoder,
               decSource, decResult, request, calls, algArgs, rounding>>
appVars == <<parity, auth, enc, dec, cloud, upl>>
vars == <<codecVars, appVars>>

NoCarrier == [kind |-> "none"]
NoRequest == [fn |-> "none"]
NoAlgArgs == [encode |-> "none", decode |-> "none"]
\* The application state of a behaviour that exercises the codecs alone.
NoParity == [pc |-> "none"]
NoAuth == [pc |-> "none"]
NoEncodeRun == [pc |-> "none", isEncoding |-> FALSE]
NoDecodeRun == [pc |-> "none", isDecoding |-> FALSE]
NoCloud == [pc |-> "none"]
NoUpload == [pc |-> "none"]
\* An encode call's Error: its text and, for the audio capacity error, the
\* two numbers the text reports.
Err(text) == [text |-> text]
NoError == Err("none")
Pending == [ok |-> FALSE, value |-> <<>>, error |-> "pending"]
Resolved(v) == [ok |-> TRUE, value |-> v, error |-> "none"]
Rejected(e) == [ok |-> FALSE, value |-> <<>>, error |-> e]

(***************************************************************************)
(* Bounds of the model.                                                    *)
(***************************************************************************)
MaxMsgLen == 2

Max(a, b) == IF a >= b THEN a ELSE b
Min(a, b) == IF a <= b THEN a ELSE b

(***************************************************************************)
(* Strings and bit strings (steganography.ts, helper functions).           *)
(***************************************************************************)
\* const END_MARKER = "<<<END>>>";
END_MARKER == <<60, 60, 60, 69, 78, 68, 62, 62, 62>>

\* Number.prototype.toString(2) of a natural: no leading zeros, "0" for 0.
RECURSIVE ToString2(_)
ToString2(n) == IF n < 2 THEN <<n>> ELSE Append(ToString2(n \div 2), n % 2)

\* String.prototype.padStart(8, "0"): pads on the left, never truncates.
RECURSIVE PadStart8(_)
PadStart8(bits) == IF Len(bits) >= 8 THEN bits ELSE PadStart8(<<0>> \o bits)

\* parseInt(bits, 2) of a non-empty string of binary digits.
RECURSIVE ParseInt2(_)
ParseInt2(bits) ==
    IF Len(bits) = 0 THEN 0
    ELSE 2 * ParseInt2(SubSeq(bits, 1, Len(bits) - 1)) + bits[Len(bits)]

\* str.split("").map(c => c.charCodeAt(0).toString(2).padStart(8,"0")).join("")
RECURSIVE stringToBinary(_)
stringToBinary(str) ==
    IF Len(str) = 0 THEN <<>>
    ELSE IF Len(str) = 1 THEN PadStart8(ToString2(str[1]))
    ELSE LET half == Len(str) \div 2
         IN stringToBinary(SubSeq(str, 1, half))
                \o stringToBinary(SubSeq(str, half + 1, Len(str)))

\* binary.match(/.{1,8}/g): greedy chunks of 8, the last one possibly shorter;
\* each chunk is parsed base 2 and turned into one character.
binaryToString(binary) ==
    [k \in 1..((Len(binary) + 7) \div 8) |->
        ParseInt2(SubSeq(binary, 8 * (k - 1) + 1, Min(8 * k, Len(binary))))]

\* String.prototype.indexOf(needle): the 0-based index of the first occurrence,
\* or -1.
IndexOf(hay, needle) ==
    LET hits == {i \in 0..(Len(hay) - Len(needle)) :
                    SubSeq(hay, i + 1, i + Len(needle)) = needle}
    IN IF hits = {} THEN -1
       ELSE CHOOSE i \in hits : \A j \in hits : i <= j

\* String.prototype.substring(0, n)
Substring0(str, n) == SubSeq(str, 1, n)

Contains(hay, needle) == IndexOf(hay, needle) # -1

(***************************************************************************)
(* Carrier images.                                                         *)
(***************************************************************************)
Image(w, h, d) == [kind |-> "image", width |-> w, height |-> h, data |-> d]

\* Source index i (0-based) is an alpha byte iff i % 4 === 3.
IsAlpha(i) == i % 4 = 3

\* Number of non-alpha bytes among the source indices 0 .. i-1.
EligibleBefore(i) == i - (i \div 4)

\* Number of non-alpha bytes of a buffer of n bytes.
EligibleCount(n) == EligibleBefore(n)

(***************************************************************************)
(* LSB codec (steganography.ts, encodeLSB / decodeLSB).                    *)
(***************************************************************************)
ErrTooLargeLSB == "Message too large for this image"
ErrNoHidden == "No hidden message found in this image"

\* data[i] = (data[i] & 0xFE) | parseInt(bit)
SetLSB_KeepsOldBit(byte, bit) == IF byte % 2 = 1 THEN byte ELSE byte + bit
SetLSB_WideMask(byte, bit) == (byte - (byte % 4)) + bit
SetLSB(byte, bit) == (byte - (byte % 2)) + bit

\* if (binaryMessage.length > data.length) reject(...)
LSBTooLarge(binaryMessage, data) == Len(binaryMessage) > Len(data)

\* The embedding loop of encodeLSB.  messageIndex advances once per non-alpha
\* byte, so when the loop visits source index i it holds EligibleBefore(i);
\* the loop stops at the end of the buffer or of the bit string, whichever
\* comes first.
EmbedLSB(data, binaryMessage) ==
    [p \in 1..Len(data) |->
        LET i == p - 1
            messageIndex == EligibleBefore(i)
        IN IF IsAlpha(i) \/ messageIndex >= Len(binaryMessage)
           THEN data[p]
           ELSE SetLSB(data[p], binaryMessage[messageIndex + 1])]

\* encodeLSB on the ImageData of the loaded image: the rejection, or the
\* ImageData put back on the canvas.
encodeLSB(img, msg) ==
    LET fullMessage == msg \o END_MARKER
        binaryMessage == stringToBinary(fullMessage)
    IN IF LSBTooLarge(binaryMessage, img.data)
       THEN [error |-> Err(ErrTooLargeLSB), out |-> NoCarrier]
       ELSE [error |-> NoError,
             out |-> Image(img.width, img.height,
                           EmbedLSB(img.data, binaryMessage))]

\* The extraction loop of decodeLSB: (data[i] & 1) of every non-alpha byte.
ExtractLSB(data) ==
    LET n == EligibleCount(Len(data))
    IN [k \in 1..n |->
          \* the k-th non-alpha byte has source index (k-1) + (k-1) div 3
          data[(k - 1) + ((k - 1) \div 3) + 1] % 2]

\* The tail shared by decodeLSB, decodeDCT and decodeDWT: binaryToString,
\* indexOf(END_MARKER), substring(0, endIndex).
FindMessage(binaryMessage) ==
    LET msg == binaryToString(binaryMessage)
        endIndex == IndexOf(msg, END_MARKER)
    IN IF endIndex = -1 THEN Rejected(ErrNoHidden)
       ELSE Resolved(Substring0(msg, endIndex))

decodeLSB(img) == FindMessage(ExtractLSB(img.data))

(***************************************************************************)
(* Inputs of the LSB specification.                                        *)
(***************************************************************************)
\* Characters messages are drawn from: '<', '>', 'A', 0xFF and the two-byte
\* code unit U+20AC.
Alphabet == {60, 62, 65, 255, 8364}

RECURSIVE SeqsUpTo(_, _)
SeqsUpTo(S, n) ==
    IF n = 0 THEN {<<>>}
    ELSE LET shorter == SeqsUpTo(S, n - 1)
         IN shorter \cup {Append(s, c) : s \in {t \in shorter : Len(t) = n - 1}, c \in S}

\* Messages that carry the end marker as ordinary content.
SentinelMessages == {END_MARKER, <<65>> \o END_MARKER \o <<65>>}

Messages == SeqsUpTo(Alphabet, MaxMsgLen) \cup SentinelMessages

\* Byte patterns of a pixel buffer: source index i |-> byte.
Fill(pattern, i) ==
    CASE pattern = "black"  -> IF IsAlpha(i) THEN 255 ELSE 0
      [] pattern = "white"  -> 255
      [] pattern = "ramp"   -> (i * 37 + 11) % 256
      [] pattern = "odd"    -> (i * 2 + 1) % 256

Patterns == {"black", "white", "ramp", "odd"}

MakeImage(w, h, pattern) ==
    Image(w, h, [p \in 1..(4 * w * h) |-> Fill(pattern, p - 1)])

LSBSizes == {<<2, 2>>, <<5, 4>>, <<6, 4>>, <<9, 3>>, <<8, 4>>, <<9, 6>>}

LSBCarriers == {MakeImage(s[1], s[2], pt) : s \in LSBSizes, pt \in Patterns}

(***************************************************************************)
(* Actions: one per exported function.                                     *)
(***************************************************************************)
\* Math.round itself rounds a tie towards +Infinity.
ExactTies == [coefficient |-> "up", pixel |-> "up"]

InitRounded(carriers, messages, roundings) ==
    /\ carrier \in carriers
    /\ message \in messages
    /\ pc = "input"
    /\ encoder = "none"
    /\ stego = NoCarrier
    /\ encError = NoError
    /\ decoder = "none"
    /\ decSource = "none"
    /\ decResult = Pending
    /\ request = NoRequest
    /\ calls = <<>>
    /\ algArgs = NoAlgArgs
    /\ rounding \in roundings
    /\ parity = NoParity
    /\ auth = NoAuth
    /\ enc = NoEncodeRun
    /\ dec = NoDecodeRun
    /\ cloud = NoCloud
    /\ upl = NoUpload

InitWith(carriers, messages) == InitRounded(carriers, messages, {ExactTies})

\* An encode call settles: resolved with a carrier, or rejected with an error.
EncodeSettles(name, r) ==
    /\ pc = "input"
    /\ encoder' = name
    /\ stego' = r.out
    /\ encError' = r.error
    /\ pc' = IF r.error = NoError THEN "encoded" ELSE "rejected"
    /\ UNCHANGED <<carrier, message, decoder, decSource, decResult, rounding>>
    /\ UNCHANGED appVars

\* The buffer a decode call is given: the encoded carrier when there is one,
\* the untouched input carrier otherwise.
DecodeInput == IF pc = "encoded" THEN stego ELSE carrier

DecodeSettles(name, r) ==
    /\ pc \in {"input", "encoded"}
    /\ decoder' = name
    /\ decSource' = IF pc = "encoded" THEN "stego" ELSE "carrier"
    /\ decResult' = r
    /\ pc' = "decoded"
    /\ UNCHANGED <<carrier, message, encoder, stego, encError, rounding>>
    /\ UNCHANGED appVars

EncodeLSB ==
    /\ carrier.kind = "image"
    /\ EncodeSettles("encodeLSB", encodeLSB(carrier, message))
    /\ UNCHANGED <<request, calls, algArgs>>

DecodeLSB ==
    /\ DecodeInput.kind = "image"
    /\ DecodeSettles("decodeLSB", decodeLSB(DecodeInput))
    /\ UNCHANGED <<request, calls, algArgs>>

InitLSB == InitWith(LSBCarriers, Messages)
NextLSB == EncodeLSB \/ DecodeLSB
SpecLSB == InitLSB /\ [][NextLSB]_vars

(***************************************************************************)
(* Claims about the LSB codec.                                             *)
(***************************************************************************)
FramedBits(msg) == stringToBinary(msg \o END_MARKER)

IsEightBit(msg) == \A k \in 1..Len(msg) : msg[k] <= 255

\* The state after decodeLSB ran on the carrier encodeLSB resolved with.
LSBRoundTripDone ==
    /\ pc = "decoded"
    /\ encoder = "encodeLSB"
    /\ decoder = "decodeLSB"
    /\ decSource = "stego"

\* C1: bit-plane round trip.  For every message of 8-bit characters without
\* the end marker whose framed bit length 8*(len+9) is at most the number of
\* non-alpha bytes of the carrier, decodeLSB on the buffer produced by
\* encodeLSB resolves with exactly the message.
C1_LSBRoundTrip ==
    (/\ LSBRoundTripDone
     /\ IsEightBit(message)
     /\ ~Contains(message, END_MARKER)
     /\ 8 * (Len(message) + 9) <= EligibleCount(Len(carrier.data)))
    => decResult = Resolved(message)

\* A round trip of a non-empty message that reaches into the last pixel of
\* the carrier (fewer than three eligible bytes are left over).
C1_Witness ==
    /\ LSBRoundTripDone
    /\ IsEightBit(message)
    /\ Len(message) > 0
    /\ 8 * (Len(message) + 9) <= EligibleCount(Len(carrier.data))
    /\ EligibleCount(Len(carrier.data)) < 8 * (Len(message) + 9) + 3
    /\ stego.data # carrier.data
    /\ decResult = Resolved(message)

\* C3: bit-plane capacity.  Whenever the framed payload's bit length exceeds
\* the number of non-alpha bytes of the pixel buffer, encodeLSB rejects with
\* the capacity error and returns no carrier.
C3_LSBCapacity ==
    (/\ encoder = "encodeLSB"
     /\ Len(FramedBits(message)) > EligibleCount(Len(carrier.data)))
    => (encError = Err(ErrTooLargeLSB) /\ stego = NoCarrier)

\* C7: the end marker as content.  A payload that contains "<<<END>>>" and
\* fits the carrier round-trips exactly through encodeLSB / decodeLSB.
C7_SentinelAsContent ==
    (/\ LSBRoundTripDone
     /\ IsEightBit(message)
     /\ Contains(message, END_MARKER)
     /\ Len(FramedBits(message)) <= EligibleCount(Len(carrier.data)))
    => decResult = Resolved(message)

(***************************************************************************)
(* Audio codec (src/src/utils/audio.ts).                                   *)
(*                                                                         *)
(* A floating-point sample x is held as the integer 2 * 32767 * x (half    *)
(* PCM steps), which keeps every tie of Math.round(x * 0x7FFF) exact.  The *)
(* Float32 rounding of pcm / 0x7FFF is below 0.002 of a PCM step and never *)
(* changes the later Math.round; it is left out.  An AudioBuffer is its    *)
(* per-channel sample arrays; a WAV file is read back (decodeAudioData) as *)
(* the samples pcm / 0x7FFF, the reading under which the source's own      *)
(* conversion returns the stored 16-bit value.                             *)
(***************************************************************************)
\* const MAGIC = 'STGH';
MAGIC == <<83, 84, 71, 72>>
MAGIC_BYTES == 4
LENGTH_BYTES == 4
HEADER_BYTES == MAGIC_BYTES + LENGTH_BYTES
\* 0x7FFF
PCM_SCALE == 32767

Audio(chs) == [kind |-> "audio", channels |-> chs]

ErrNoAudioData == "Could not extract message from this audio. Please ensure this file contains hidden data."
ErrLengthExceeds == "Extracted message length exceeds audio capacity"
ErrNotEnoughBytes == "Not enough bytes to contain header"
ErrIncomplete == "Incomplete message data"
ErrInvalidUtf8 == "Invalid UTF-8 data in decoded message"
ErrTooLargeAudio == "Message too large for this audio file"

\* UTF-8 bytes of one Unicode scalar value.
Utf8OfScalar(cp) ==
    IF cp < 128 THEN <<cp>>
    ELSE IF cp < 2048 THEN <<192 + (cp \div 64), 128 + (cp % 64)>>
    ELSE IF cp < 65536
         THEN <<224 + (cp \div 4096), 128 + ((cp \div 64) % 64), 128 + (cp % 64)>>
    ELSE <<240 + (cp \div 262144), 128 + ((cp \div 4096) % 64),
           128 + ((cp \div 64) % 64), 128 + (cp % 64)>>

IsHighSurrogate(u) == u >= 55296 /\ u <= 56319
IsLowSurrogate(u) == u >= 56320 /\ u <= 57343

\* new TextEncoder().encode(str): a surrogate pair is one scalar value, a lone
\* surrogate is replaced by U+FFFD.
RECURSIVE TextEncode(_)
TextEncode(str) ==
    IF Len(str) = 0 THEN <<>>
    ELSE IF IsHighSurrogate(str[1]) /\ Len(str) >= 2 /\ IsLowSurrogate(str[2])
         THEN Utf8OfScalar(65536 + (str[1] - 55296) * 1024 + (str[2] - 56320))
                  \o TextEncode(SubSeq(str, 3, Len(str)))
    ELSE IF IsHighSurrogate(str[1]) \/ IsLowSurrogate(str[1])
         THEN Utf8OfScalar(65533) \o TextEncode(Tail(str))
    ELSE Utf8OfScalar(str[1]) \o TextEncode(Tail(str))

IsCont(b, lo, hi) == b >= lo /\ b <= hi

\* UTF-16 code units of one scalar value.
Utf16OfScalar(cp) ==
    IF cp < 65536 THEN <<cp>>
    ELSE <<55296 + ((cp - 65536) \div 1024), 56320 + ((cp - 65536) % 1024)>>

\* The strict UTF-8 decoder (TextDecoder with fatal: true) on the bytes from
\* position p on: the decoded code units, or <<-1>> on an invalid sequence.
RECURSIVE Utf8Decode(_, _)
Utf8Decode(b, p) ==
    IF p > Len(b) THEN <<>>
    ELSE
      LET b1 == b[p]
          has(k) == p + k <= Len(b)
          lo2 == IF b1 = 224 THEN 160 ELSE IF b1 = 240 THEN 144 ELSE 128
          hi2 == IF b1 = 237 THEN 159 ELSE IF b1 = 244 THEN 143 ELSE 191
          need == IF b1 < 128 THEN 0
                  ELSE IF b1 >= 194 /\ b1 <= 223 THEN 1
                  ELSE IF b1 >= 224 /\ b1 <= 239 THEN 2
                  ELSE IF b1 >= 240 /\ b1 <= 244 THEN 3
                  ELSE -1
          wellFormed ==
              /\ need >= 0
              /\ has(need)
              /\ need >= 1 => IsCont(b[p + 1], lo2, hi2)
              /\ need >= 2 => IsCont(b[p + 2], 128, 191)
              /\ need >= 3 => IsCont(b[p + 3], 128, 191)
          cp == CASE need = 0 -> b1
                  [] need = 1 -> (b1 - 192) * 64 + (b[p + 1] - 128)
                  [] need = 2 -> (b1 - 224) * 4096 + (b[p + 1] - 128) * 64
                                     + (b[p + 2] - 128)
                  [] need = 3 -> (b1 - 240) * 262144 + (b[p + 1] - 128) * 4096
                                     + (b[p + 2] - 128) * 64 + (b[p + 3] - 128)
      IN IF ~wellFormed THEN <<-1>>
         ELSE LET rest == Utf8Decode(b, p + need + 1)
              IN IF rest = <<-1>> THEN rest ELSE Utf16OfScalar(cp) \o rest

\* new TextDecoder('utf-8', { fatal: true }).decode(bytes): a leading byte
\* order mark EF BB BF is dropped (ignoreBOM is false).
TextDecode(b) ==
    LET start == IF Len(b) >= 3 /\ SubSeq(b, 1, 3) = <<239, 187, 191>> THEN 4 ELSE 1
        units == Utf8Decode(b, start)
    IN IF units = <<-1>> THEN [ok |-> FALSE, value |-> <<>>]
       ELSE [ok |-> TRUE, value |-> units]

\* The four header bytes of the length: (n >>> 24) & 0xFF, ..., n & 0xFF.
LengthBytes_LittleEndian(n) ==
    <<n % 256, (n \div 256) % 256, (n \div 65536) % 256, (n \div 16777216) % 256>>

LengthBytes(n) ==
    <<(n \div 16777216) % 256, (n \div 65536) % 256, (n \div 256) % 256, n % 256>>

\* messageToBytes: MAGIC, the big-endian payload length, the UTF-8 payload.
messageToBytes(msg) ==
    LET messageBytes == TextEncode(msg)
    IN MAGIC \o LengthBytes(Len(messageBytes)) \o messageBytes

\* bytes[i].toString(2).padStart(8, '0'), concatenated (the bytes are < 256).
RECURSIVE bytesToBits(_)
bytesToBits(bytes) ==
    IF Len(bytes) = 0 THEN <<>>
    ELSE PadStart8(ToString2(bytes[1])) \o bytesToBits(Tail(bytes))

\* bitsToBytes: Math.ceil(bits.length / 8) bytes; a trailing chunk shorter
\* than 8 bits leaves its byte 0.
bitsToBytes(bits) ==
    [k \in 1..((Len(bits) + 7) \div 8) |->
        IF 8 * k <= Len(bits) THEN ParseInt2(SubSeq(bits, 8 * k - 7, 8 * k)) ELSE 0]

\* (b4 << 24) | (b5 << 16) | (b6 << 8) | b7 as the signed 32-bit integer the
\* bitwise operators produce.
ReadLength(bytes) ==
    (IF bytes[5] >= 128 THEN bytes[5] - 256 ELSE bytes[5]) * 16777216
        + bytes[6] * 65536 + bytes[7] * 256 + bytes[8]

\* bytesToMessage: the payload of a framed byte sequence.
bytesToMessage(bytes) ==
    IF Len(bytes) < HEADER_BYTES THEN Rejected(ErrNotEnoughBytes)
    ELSE IF SubSeq(bytes, 1, MAGIC_BYTES) # MAGIC THEN Rejected(ErrNoAudioData)
    ELSE
      LET messageLength == ReadLength(bytes)
          \* bytes.slice(8, 8 + messageLength), the end clipped to the array
          sliceEnd == Min(Len(bytes), Max(HEADER_BYTES, HEADER_BYTES + messageLength))
          payloadBytes == SubSeq(bytes, HEADER_BYTES + 1, sliceEnd)
          text == TextDecode(payloadBytes)
      IN IF Len(payloadBytes) < messageLength THEN Rejected(ErrIncomplete)
         ELSE IF ~text.ok THEN Rejected(ErrInvalidUtf8)
         ELSE Resolved(text.value)

\* Math.round(Math.max(-1, Math.min(1, x)) * 0x7FFF) of a sample x held in
\* half steps: Math.round rounds a tie towards +Infinity.
ToPCM(x) ==
    LET clamped == Max(-2 * PCM_SCALE, Min(2 * PCM_SCALE, x))
    IN (clamped + 1) \div 2

\* A value stored into an Int16Array wraps modulo 2^16.
Int16(v) == ((v + 32768) % 65536) - 32768

\* pcmSamples[i] = (pcmSamples[i] & 0xFFFE) | bit
EmbedBit_NoMask(pcm, bit) == Int16(IF pcm % 2 = 1 THEN pcm ELSE pcm + bit)
EmbedBit_WideMask(pcm, bit) == Int16(((pcm % 65536) - (pcm % 4)) + bit)
EmbedBit(pcm, bit) == Int16(((pcm % 65536) - (pcm % 2)) + bit)

\* pcmSamples[i] / 0x7FFF, in half steps.
ToFloat(pcm) == 2 * pcm

\* if (messageBits.length > capacityBits) reject(...)
AudioTooLarge_OffByOne(messageBits, numSamples) == Len(messageBits) >= numSamples
AudioTooLarge(messageBits, numSamples) == Len(messageBits) > numSamples

\* The sample bufferToWav writes for one float sample, and the float sample
\* decodeAudioData gives back for it.
WavSample(x) == ToPCM(x)
ReadWavSample(s) == ToFloat(s)

\* encodeAudio on the decoded AudioBuffer.  The algorithm argument is unused.
encodeAudio(buf, msg, algorithm) ==
    LET messageBits == bytesToBits(messageToBytes(msg))
        channelData == buf.channels[1]
        numSamples == Len(channelData)
        pcmSamples == [i \in 1..numSamples |->
                          IF i <= Len(messageBits)
                          THEN EmbedBit(ToPCM(channelData[i]), messageBits[i])
                          ELSE ToPCM(channelData[i])]
        modifiedChannelData == [i \in 1..numSamples |-> ToFloat(pcmSamples[i])]
        modifiedBuffer == [c \in 1..Len(buf.channels) |->
                              IF c = 1 THEN modifiedChannelData ELSE buf.channels[c]]
        wav == [c \in 1..Len(buf.channels) |->
                   [i \in 1..numSamples |-> WavSample(modifiedBuffer[c][i])]]
    IN IF AudioTooLarge(messageBits, numSamples)
       THEN [error |-> [text |-> ErrTooLargeAudio, capacity |-> numSamples,
                        required |-> Len(messageBits)],
             out |-> NoCarrier]
       ELSE [error |-> NoError,
             out |-> Audio([c \in 1..Len(buf.channels) |->
                              [i \in 1..numSamples |-> ReadWavSample(wav[c][i])]])]

\* pcmSamples[i] & 1 for a source index i that may lie past the array, where
\* the read is undefined and undefined & 1 is 0.
PcmBit(pcmSamples, i) == IF i + 1 <= Len(pcmSamples) THEN pcmSamples[i + 1] % 2 ELSE 0

\* if (totalBits > numSamples), with totalBits = (HEADER_BYTES + messageLength) * 8
\* compared without leaving 32-bit integers: 8 * t > n iff t > n div 8.
LengthExceeds_IgnoresHeader(messageLength, numSamples) ==
    messageLength > (numSamples \div 8)

LengthExceeds(messageLength, numSamples) ==
    messageLength > (numSamples \div 8) - HEADER_BYTES

\* decodeAudio on the decoded AudioBuffer.  The algorithm argument is unused.
decodeAudio(buf, algorithm) ==
    LET channelData == buf.channels[1]
        numSamples == Len(channelData)
        pcmSamples == [i \in 1..numSamples |-> ToPCM(channelData[i])]
        headerBits == [i \in 1..(HEADER_BYTES * 8) |-> PcmBit(pcmSamples, i - 1)]
        headerBytes == bitsToBytes(headerBits)
        messageLength == ReadLength(headerBytes)
        \* (HEADER_BYTES + messageLength) * 8 is computed in doubles and
        \* does not wrap; a product that is not positive reads no bits
        totalBytes == HEADER_BYTES + messageLength
        totalBits == IF totalBytes <= 0 THEN 0 ELSE totalBytes * 8
        allBits == [i \in 1..totalBits |-> PcmBit(pcmSamples, i - 1)]
    IN IF Len(headerBytes) < HEADER_BYTES THEN Rejected(ErrNoAudioData)
       ELSE IF SubSeq(headerBytes, 1, MAGIC_BYTES) # MAGIC THEN Rejected(ErrNoAudioData)
       ELSE IF LengthExceeds(messageLength, numSamples) THEN Rejected(ErrLengthExceeds)
       ELSE bytesToMessage(bitsToBytes(allBits))

(***************************************************************************)
(* Inputs of the audio specification.                                      *)
(***************************************************************************)
\* 'A', U+00E9 (two UTF-8 bytes) and U+20AC (three UTF-8 bytes).
AudioAlphabet == {65, 233, 8364}

AudioMessages == SeqsUpTo(AudioAlphabet, MaxMsgLen) \cup {MAGIC, MAGIC \o <<65>>}

\* Sample patterns: channel c (0-based), index i (0-based) |-> half steps.
Wave(pattern, c, i) ==
    CASE pattern = "silence"  -> 0
      [] pattern = "negFull"  -> -2 * PCM_SCALE
      [] pattern = "posOver"  -> 2 * PCM_SCALE + 5000
      [] pattern = "ramp"     -> ((i * 7919 + c * 13) % 131069) - 65534
      [] pattern = "ties"     -> 2 * ((i * 5) % 23) - 21

WavePatterns == {"silence", "negFull", "posOver", "ramp", "ties"}

MakeAudio(n, nch, pattern) ==
    Audio([c \in 1..nch |-> [i \in 1..n |-> Wave(pattern, c - 1, i - 1)]])

AudioLengths == {0, 8, 63, 64, 72, 80, 88, 96, 100, 104}

AudioCarriers ==
    {MakeAudio(n, nch, pt) : n \in AudioLengths, nch \in {1, 2}, pt \in WavePatterns}

AudioAlgorithms == {"audio_phase", "audio_echo"}

EncodeAudio ==
    /\ carrier.kind = "audio"
    /\ \E alg \in AudioAlgorithms :
          /\ EncodeSettles("encodeAudio", encodeAudio(carrier, message, alg))
          /\ algArgs' = [algArgs EXCEPT !.encode = alg]
    /\ UNCHANGED <<request, calls>>

DecodeAudio ==
    /\ DecodeInput.kind = "audio"
    /\ \E alg \in AudioAlgorithms :
          /\ DecodeSettles("decodeAudio", decodeAudio(DecodeInput, alg))
          /\ algArgs' = [algArgs EXCEPT !.decode = alg]
    /\ UNCHANGED <<request, calls>>

InitAudio == InitWith(AudioCarriers, AudioMessages)
NextAudio == EncodeAudio \/ DecodeAudio
SpecAudio == InitAudio /\ [][NextAudio]_vars

(***************************************************************************)
(* Claims about the audio codec.                                           *)
(***************************************************************************)
NumSamples == Len(carrier.channels[1])

AudioRoundTripDone ==
    /\ pc = "decoded"
    /\ encoder = "encodeAudio"
    /\ decoder = "decodeAudio"
    /\ decSource = "stego"

\* C2: sample-domain round trip.  For every first-channel sample array and
\* every payload with 8 * (8 + utf8len) <= numSamples, decodeAudio on the
\* samples written by encodeAudio resolves with exactly the payload.
C2_AudioRoundTrip ==
    (/\ AudioRoundTripDone
     /\ 8 * (8 + Len(TextEncode(message))) <= NumSamples)
    => decResult = Resolved(message)

\* C6: audio capacity boundary.  encodeAudio rejects with the capacity error,
\* reporting capacity and required bits and producing no output, if and only
\* if 8 * (8 + utf8len) > numSamples.
C6_AudioCapacity ==
    encoder = "encodeAudio" =>
        LET required == 8 * (8 + Len(TextEncode(message)))
        IN /\ (required > NumSamples) <=>
                  (encError.text = ErrTooLargeAudio)
           /\ (required > NumSamples) =>
                  /\ encError.capacity = NumSamples
                  /\ encError.required = required
                  /\ stego = NoCarrier
           /\ (required <= NumSamples) => (pc # "rejected" /\ stego.kind = "audio")

\* A non-empty payload exactly at the bound is accepted.
C6_Witness ==
    /\ encoder = "encodeAudio"
    /\ Len(message) > 0
    /\ 8 * (8 + Len(TextEncode(message))) = NumSamples
    /\ pc = "encoded"
    /\ encError = NoError

(***************************************************************************)
(* Math.round on values the model holds exactly.                           *)
(*                                                                         *)
(* The transform codecs compute in IEEE doubles and divide by Math.sqrt(2) *)
(* twice where real arithmetic divides by 2, so a value that is an exact   *)
(* tie k + 1/2 in real arithmetic reaches Math.round a few ulps above or   *)
(* below the tie and is rounded to k + 1 or to k.  The model holds the     *)
(* exact value and takes the direction of such a tie from the variable     *)
(* rounding; a value that is not a tie is at least 1/4 away from one, far  *)
(* beyond the floating-point error, and rounds to the nearest integer.     *)
(***************************************************************************)
Directions == {"up", "down"}

\* All roundings: one direction for coefficients, one for pixels.
TiePolicies == [coefficient : Directions, pixel : Directions]

\* Math.round(n2 / 2)
RoundHalves(n2, dir) ==
    IF n2 % 2 = 0 THEN n2 \div 2
    ELSE IF dir = "up" THEN (n2 + 1) \div 2 ELSE (n2 - 1) \div 2

\* Math.round(q / 4)
RoundQuarters(q, dir) ==
    IF q % 4 = 2
    THEN IF dir = "up" THEN (q + 2) \div 4 ELSE (q - 2) \div 4
    ELSE (q + 2) \div 4

\* The remainder operator a % n of JavaScript: the sign of the dividend.
JsRem(a, n) == IF a >= 0 THEN a % n ELSE -((-a) % n)

\* (coeff % 2 === 0) ? '0' : '1' of extractFromDCT and extractFromDWT.
ParityBit(coeff) == IF JsRem(coeff, 2) = 0 THEN 0 ELSE 1

\* Math.max(0, Math.min(255, v))
Clamp255(v) == Max(0, Min(255, v))

(***************************************************************************)
(* 8x8 blocks of the three colour channels (part_007, extractBlocks and    *)
(* reconstructImage; part_006 has the same layout).                        *)
(***************************************************************************)
\* blockSize: number = 8
BLOCK_SIZE == 8

BlocksX(img) == img.width \div BLOCK_SIZE
BlocksY(img) == img.height \div BLOCK_SIZE

\* Blocks of one channel, and of the three channels R, G, B.
ChannelBlocks(img) == BlocksX(img) * BlocksY(img)
BlockCount(img) == 3 * ChannelBlocks(img)

\* The loops visit channel, then blockY, then blockX: the k-th block visited
\* (k from 0) is block (blockX, blockY) of the channel given here.
BlockAt(img, k) ==
    [channel |-> k \div ChannelBlocks(img),
     blockY  |-> (k % ChannelBlocks(img)) \div BlocksX(img),
     blockX  |-> k % BlocksX(img)]

\* pixelIndex = (pixelY * width + pixelX) * 4 + channel
PixelIndex(img, b, x, y) ==
    ((b.blockY * BLOCK_SIZE + y) * img.width + b.blockX * BLOCK_SIZE + x) * 4
        + b.channel

\* block[y][x] = data[pixelIndex]
BlockPixel(img, b, x, y) == img.data[PixelIndex(img, b, x, y) + 1]

\* blocks[0][0][0].length and blocks[0][0].length read a property of
\* undefined when the image has no complete block; the try/catch of the
\* caller turns the TypeError into a rejection.
ErrTypeError == "TypeError: Cannot read properties of undefined"
NoBlocks(img) == BlocksX(img) = 0 \/ BlocksY(img) = 0

(***************************************************************************)
(* DWT codec (part_007 and steganography.ts encodeDWT / decodeDWT).        *)
(*                                                                         *)
(* Only the coefficient HH[0][0] of a block is modified, and it depends on *)
(* and feeds back into the four pixels block[0..1][0..1] only; the model   *)
(* transforms that 2x2 corner.  With the corner <<b00, b01, b10, b11>>     *)
(* (bYX = block[Y][X]) the four sub-band coefficients at position (0,0)    *)
(* are held doubled, the reconstructed pixels in quarters.  Every other    *)
(* pixel of a transformed block comes back from inverseHaar2D as its own   *)
(* integer value up to floating-point error, which Math.round removes.     *)
(***************************************************************************)
ErrTooLargeDWT == "Message too large for this image using DWT algorithm"

\* haar1D over rows then columns: approximation (a + b) / sqrt 2, detail
\* (a - b) / sqrt 2; LL, LH, HL, HH at [0][0], each doubled.
haar2D(b) ==
    [LL |-> (b[1] + b[2]) + (b[3] + b[4]),
     LH |-> (b[1] - b[2]) + (b[3] - b[4]),
     HL |-> (b[1] + b[2]) - (b[3] + b[4]),
     HH |-> (b[1] - b[2]) - (b[3] - b[4])]

\* inverseHaar1D over columns then rows; s holds doubled coefficients, the
\* result is the corner <<f00, f01, f10, f11>> in quarters.
inverseHaar2D(s) ==
    <<(s.LL + s.HL) + (s.LH + s.HH),
      (s.LL + s.HL) - (s.LH + s.HH),
      (s.LL - s.HL) + (s.LH - s.HH),
      (s.LL - s.HL) - (s.LH - s.HH)>>

\* The corner block[0..1][0..1] of a block.
Corner(img, b) ==
    <<BlockPixel(img, b, 0, 0), BlockPixel(img, b, 1, 0),
      BlockPixel(img, b, 0, 1), BlockPixel(img, b, 1, 1)>>

\* The parity rule of embedInDWT on r = Math.round(coeff):
\* isEven = r % 2 === 0; change the parity when it does not match the bit.
EmbedParityDWT_OddIsOne(r, bit) ==
    LET isEven == JsRem(r, 2) # 1
    IN IF (bit = 1 /\ isEven) \/ (bit = 0 /\ ~isEven)
       THEN r + (IF isEven THEN 1 ELSE -1)
       ELSE r

EmbedParityDWT(r, bit) ==
    LET isEven == JsRem(r, 2) = 0
    IN IF (bit = 1 /\ isEven) \/ (bit = 0 /\ ~isEven)
       THEN r + (IF isEven THEN 1 ELSE -1)
       ELSE r

\* One iteration of embedInDWT followed by reconstructImage on the block:
\* the four corner pixels written back to the buffer.
EmbedBlockDWT(img, b, bit, rnd) ==
    LET s == haar2D(Corner(img, b))
        r == RoundHalves(s.HH, rnd.coefficient)
        f == inverseHaar2D([s EXCEPT !.HH = 2 * EmbedParityDWT(r, bit)])
    IN [j \in 1..4 |-> Clamp255(RoundQuarters(f[j], rnd.pixel))]

\* applyDWTEncoding: extractBlocks, embedInDWT, reconstructImage.  Bit k goes
\* to the k-th block; the loop ends with the bits or with the blocks.
applyDWTEncoding(img, binaryMessage, rnd) ==
    LET used == Min(Len(binaryMessage), BlockCount(img))
        aligned(px, py) == /\ px \div BLOCK_SIZE < BlocksX(img)
                           /\ py \div BLOCK_SIZE < BlocksY(img)
        pixel(p) ==
            LET i == p - 1
                c == i % 4
                px == (i \div 4) % img.width
                py == (i \div 4) \div img.width
                k == c * ChannelBlocks(img)
                       + (py \div BLOCK_SIZE) * BlocksX(img)
                       + (px \div BLOCK_SIZE)
            IN IF /\ c < 3
                  /\ px % BLOCK_SIZE < 2
                  /\ py % BLOCK_SIZE < 2
                  /\ aligned(px, py)
                  /\ k < used
               THEN EmbedBlockDWT(img, BlockAt(img, k), binaryMessage[k + 1],
                                  rnd)[2 * (py % BLOCK_SIZE)
                                         + (px % BLOCK_SIZE) + 1]
               ELSE img.data[p]
    IN Image(img.width, img.height, [p \in 1..Len(img.data) |-> pixel(p)])

\* const capacity = Math.floor((imageData.width * imageData.height) / 16)
DWTCapacity(img) == (img.width * img.height) \div 16

encodeDWT(img, msg, rnd) ==
    LET fullMessage == msg \o END_MARKER
        binaryMessage == stringToBinary(fullMessage)
    IN IF Len(binaryMessage) > DWTCapacity(img)
       THEN [error |-> Err(ErrTooLargeDWT), out |-> NoCarrier]
       ELSE IF NoBlocks(img)
       THEN [error |-> Err(ErrTypeError), out |-> NoCarrier]
       ELSE [error |-> NoError,
             out |-> applyDWTEncoding(img, binaryMessage, rnd)]

\* extractFromDWT: one bit per block, the parity of Math.round(HH[0][0]).
extractFromDWT(img, messageLength, rnd) ==
    [n \in 1..Min(messageLength, BlockCount(img)) |->
        LET coeff == RoundHalves(haar2D(Corner(img, BlockAt(img, n - 1))).HH,
                                 rnd.coefficient)
        IN ParityBit(coeff)]

\* extractDWTMessage: maxLength = blocks of all three channels.
extractDWTMessage(img, rnd) == extractFromDWT(img, BlockCount(img), rnd)

decodeDWT(img, rnd) ==
    IF NoBlocks(img) THEN Rejected(ErrTypeError)
    ELSE FindMessage(extractDWTMessage(img, rnd))

(***************************************************************************)
(* Inputs and actions of the DWT specification.                            *)
(***************************************************************************)
\* Opaque textures for the block codecs: pixel (x, y), channel c |-> byte.
Texture(pattern, x, y, c) ==
    IF c = 3 THEN 255
    ELSE CASE pattern = "flat"      -> 128
           [] pattern = "light"     -> 200
           [] pattern = "black"     -> 0
           [] pattern = "stripes"   -> 255 * (y % 2)
           [] pattern = "speckle"   ->
                IF x % BLOCK_SIZE = 0 /\ y % BLOCK_SIZE = 0 THEN 1 ELSE 0

MakeTextured(w, h, pattern) ==
    Image(w, h, [p \in 1..(4 * w * h) |->
                    Texture(pattern, ((p - 1) \div 4) % w,
                            ((p - 1) \div 4) \div w, (p - 1) % 4)])

BlockMessages == SeqsUpTo({65}, MaxMsgLen)

DWTPatterns == {"flat", "light", "speckle"}
DWTSizes == {<<50, 33>>, <<40, 32>>, <<58, 33>>, <<16, 16>>, <<7, 200>>}
DWTCarriers == {MakeTextured(s[1], s[2], pt) : s \in DWTSizes, pt \in DWTPatterns}

EncodeDWT ==
    /\ carrier.kind = "image"
    /\ EncodeSettles("encodeDWT", encodeDWT(carrier, message, rounding))
    /\ UNCHANGED <<request, calls, algArgs>>

DecodeDWT ==
    /\ DecodeInput.kind = "image"
    /\ DecodeSettles("decodeDWT", decodeDWT(DecodeInput, rounding))
    /\ UNCHANGED <<request, calls, algArgs>>

InitDWT == InitRounded(DWTCarriers, BlockMessages, TiePolicies)
NextDWT == EncodeDWT \/ DecodeDWT
SpecDWT == InitDWT /\ [][NextDWT]_vars

(***************************************************************************)
(* Claims about the DWT codec.                                             *)
(***************************************************************************)
\* C4: wavelet capacity.  Whenever the framed payload's bit length exceeds
\* the number of 8x8 blocks of the three colour channels,
\* 3 * floor(w/8) * floor(h/8), encodeDWT rejects with the capacity error and
\* returns no carrier.
C4_DWTCapacity ==
    (/\ encoder = "encodeDWT"
     /\ Len(FramedBits(message)) > BlockCount(carrier))
    => (encError = Err(ErrTooLargeDWT) /\ stego = NoCarrier)

\* C8: wavelet round trip.  For every carrier and every message that
\* encodeDWT accepts, decodeDWT on the encoded carrier resolves with exactly
\* the message.
C8_DWTRoundTrip ==
    (/\ pc = "decoded"
     /\ encoder = "encodeDWT"
     /\ decoder = "decodeDWT"
     /\ decSource = "stego")
    => decResult = Resolved(message)

(***************************************************************************)
(* DCT codec (part_006 and steganography.ts encodeDCT / decodeDCT).        *)
(*                                                                         *)
(* The source computes in IEEE doubles; the model computes the same sums   *)
(* in integer fixed point.  A basis value cu / 2 * cos((2x+1) u pi / 16)   *)
(* is held times 2^16, a coefficient and a reconstructed sample times      *)
(* 2^10, so a modelled value is within 0.07 of the double.  The carriers   *)
(* of the DCT specification keep every argument of Math.round on their     *)
(* path further than that from a tie (no DC level is an odd multiple of 8, *)
(* where value / 16 is a tie), so the modelled bytes are the bytes the     *)
(* source computes.                                                        *)
(***************************************************************************)
\* const N = 8
N == 8

QUANTIZATION_MATRIX ==
    <<16, 11, 10, 16, 24, 40, 51, 61,
      12, 12, 14, 19, 26, 58, 60, 55,
      14, 13, 16, 24, 40, 57, 69, 56,
      14, 17, 22, 29, 51, 87, 80, 62,
      18, 22, 37, 56, 68, 109, 103, 77,
      24, 35, 55, 64, 81, 104, 113, 92,
      49, 64, 78, 87, 103, 121, 120, 101,
      72, 92, 95, 98, 112, 100, 103, 99>>

\* DCT_BASIS[u + 1][x + 1] = round(2^16 * cu / 2 * Math.cos((2x+1) u PI / 16)),
\* cu = 1 / Math.sqrt(2) for u = 0 and 1 otherwise; (1/4) * cu * cv * cos * cos
\* of applyDCT and applyIDCT is the product of two basis values.
DCT_BASIS ==
    <<<<23170, 23170, 23170, 23170, 23170, 23170, 23170, 23170>>,
      <<32138, 27246, 18205, 6393, -6393, -18205, -27246, -32138>>,
      <<30274, 12540, -12540, -30274, -30274, -12540, 12540, 30274>>,
      <<27246, -6393, -32138, -18205, 18205, 32138, 6393, -27246>>,
      <<23170, -23170, -23170, 23170, 23170, -23170, -23170, 23170>>,
      <<18205, -32138, 6393, 27246, -27246, -6393, 32138, -18205>>,
      <<12540, -30274, 30274, -12540, -12540, 30274, -30274, 12540>>,
      <<6393, -18205, 27246, -32138, 32138, -27246, 18205, -6393>>>>

\* An array of N elements, built element by element as the loops of the
\* source fill it: Array8(f) is the array whose element i is f[i + 1].
Array8(f) == SubSeq(f, 1, N)

Dot8(a, b) ==
    a[1] * b[1] + a[2] * b[2] + a[3] * b[3] + a[4] * b[4]
        + a[5] * b[5] + a[6] * b[6] + a[7] * b[7] + a[8] * b[8]

Col8(m, j) == Array8([i \in 1..N |-> m[i][j]])

Transpose8(m) == Array8([j \in 1..N |-> Col8(m, j)])

DCT_BASIS_T == Transpose8(DCT_BASIS)

\* sum of t[j] * basis[j], t times 2^16 and basis times 2^16, brought down to
\* 2^10.  t is split into t \div 2^12 and t % 2^12 so that no product leaves
\* 32 bits; the only rounding is the final floor.
ScaledDot(t, basis) ==
    (Dot8(Array8([j \in 1..N |-> t[j] \div 4096]), basis)
        + (Dot8(Array8([j \in 1..N |-> t[j] % 4096]), basis) \div 4096))
    \div 1024

\* The separable transform of one row: the sums over the first index against
\* the basis vector first, then the sums over the second index against each
\* vector of second.
TransformRow(blockT, first, second) ==
    LET t == Array8([y \in 1..N |-> Dot8(first, blockT[y])])
    IN Array8([v \in 1..N |-> ScaledDot(t, second[v])])

\* Row u of applyDCT(block): output[u][0..7], times 2^10.  blockT is the
\* transposed block, so blockT[y + 1] is block[0..7][y].
DCTRow(blockT, u) == TransformRow(blockT, DCT_BASIS[u + 1], DCT_BASIS)

applyDCT(block) ==
    LET blockT == Transpose8(block)
    IN Array8([u \in 1..N |-> DCTRow(blockT, u - 1)])

\* Row x of applyIDCT(block): output[x][0..7], times 2^10.  blockT[v + 1] is
\* block[0..7][v], integer coefficients.
IDCTRow(blockT, x) == TransformRow(blockT, DCT_BASIS_T[x + 1], DCT_BASIS_T)

applyIDCT(block) ==
    LET blockT == Transpose8(block)
    IN Array8([x \in 1..N |-> IDCTRow(blockT, x - 1)])

\* Math.round(c / qValue) for c held times 2^10: floor(c / qValue + 1/2).
QuantizeValue(c, u, v) ==
    LET qValue == QUANTIZATION_MATRIX[u * N + v + 1]
    IN (2 * c + qValue * 1024) \div (2 * qValue * 1024)

quantize(block) ==
    Array8([u \in 1..N |->
        Array8([v \in 1..N |-> QuantizeValue(block[u][v], u - 1, v - 1)])])

\* output[u][v] = block[u][v] * qValue
dequantize(block) ==
    Array8([u \in 1..N |->
        Array8([v \in 1..N |->
            block[u][v] * QUANTIZATION_MATRIX[(u - 1) * N + (v - 1) + 1]])])

ErrTooLargeDCT == "Message too large for this image using DCT algorithm"

\* extractBlocks of part_006: block[y][x] = data[pixelIndex] - 128.
DCTBlock(img, b) ==
    Array8([y \in 1..N |->
        Array8([x \in 1..N |-> BlockPixel(img, b, x - 1, y - 1) - 128])])

\* The parity rule of embedInDCT on the quantised coefficient (an integer, so
\* Math.round(coeff) is coeff).
EmbedParityDCT(coeff, bit) ==
    LET isEven == JsRem(coeff, 2) = 0
    IN IF (bit = 1 /\ isEven) \/ (bit = 0 /\ ~isEven)
       THEN coeff + (IF isEven THEN 1 ELSE -1)
       ELSE coeff

\* targetCoeff = { u: 4, v: 5 }; a block past the last bit of the message
\* (bit = -1) is left as it is.
embedInDCT(block, bit) ==
    IF bit = -1 THEN block
    ELSE [block EXCEPT ![5][6] = EmbedParityDCT(block[5][6], bit)]

\* reconstructImage of part_006 on one sample held times 2^10:
\* Math.max(0, Math.min(255, Math.round(value + 128))).
ReconstructValue(v) == Clamp255((v + 128 * 1024 + 512) \div 1024)

ReconstructBlock(block) ==
    Array8([y \in 1..N |->
        Array8([x \in 1..N |-> ReconstructValue(block[y][x])])])

\* What applyDCTEncoding does to one block: quantize(applyDCT(block)), the
\* parity rule when the block carries a bit, applyIDCT(dequantize(block)),
\* and the bytes reconstructImage writes.
EncodeBlockDCT(img, b, bit) ==
    ReconstructBlock(
        applyIDCT(dequantize(
            embedInDCT(quantize(applyDCT(DCTBlock(img, b))), bit))))

\* applyDCTEncoding: every block of the three channels is transformed,
\* quantised and written back; bit k goes to the k-th block.
applyDCTEncoding(img, binaryMessage) ==
    LET n == BlockCount(img)
        blocks == SubSeq([k \in 1..n |->
                            EncodeBlockDCT(img, BlockAt(img, k - 1),
                                IF k <= Len(binaryMessage)
                                THEN binaryMessage[k] ELSE -1)], 1, n)
        pixel(p) ==
            LET i == p - 1
                c == i % 4
                px == (i \div 4) % img.width
                py == (i \div 4) \div img.width
                k == c * ChannelBlocks(img)
                       + (py \div BLOCK_SIZE) * BlocksX(img)
                       + (px \div BLOCK_SIZE)
            IN IF /\ c < 3
                  /\ px \div BLOCK_SIZE < BlocksX(img)
                  /\ py \div BLOCK_SIZE < BlocksY(img)
               THEN blocks[k + 1][(py % BLOCK_SIZE) + 1][(px % BLOCK_SIZE) + 1]
               ELSE img.data[p]
    IN Image(img.width, img.height, [p \in 1..Len(img.data) |-> pixel(p)])

\* const blockCount = Math.floor(width / 8) * Math.floor(height / 8)
DCTBlockCount(img) == (img.width \div 8) * (img.height \div 8)

encodeDCT(img, msg) ==
    LET fullMessage == msg \o END_MARKER
        binaryMessage == stringToBinary(fullMessage)
    IN IF Len(binaryMessage) > DCTBlockCount(img)
       THEN [error |-> Err(ErrTooLargeDCT), out |-> NoCarrier]
       ELSE [error |-> NoError, out |-> applyDCTEncoding(img, binaryMessage)]

\* extractFromDCT reads quantize(applyDCT(block))[4][5] of each block and
\* takes its parity: (coeff % 2 === 0) ? '0' : '1'.
extractFromDCT(img, messageLength) ==
    [n \in 1..Min(messageLength, BlockCount(img)) |->
        LET blockT == Transpose8(DCTBlock(img, BlockAt(img, n - 1)))
            coeff == QuantizeValue(DCTRow(blockT, 4)[6], 4, 5)
        IN ParityBit(coeff)]

\* maxLength = blocks[0].length * blocks[0][0].length * blocks.length;
\* blocks[0][0] is undefined when the image is less than 8 pixels high.
extractDCTMessage(img) == extractFromDCT(img, BlockCount(img))

decodeDCT(img) ==
    IF BlocksY(img) = 0 THEN Rejected(ErrTypeError)
    ELSE FindMessage(extractDCTMessage(img))

(***************************************************************************)
(* Inputs and actions of the DCT specification.                            *)
(***************************************************************************)
HELLO == <<72, 69, 76, 76, 79>>

DCTMessages == BlockMessages \cup {HELLO}
DCTPatterns == {"flat", "black", "stripes"}
DCTSizes == {<<75, 66>>, <<80, 64>>, <<64, 64>>, <<7, 16>>, <<16, 7>>}
DCTCarriers == {MakeTextured(s[1], s[2], pt) : s \in DCTSizes, pt \in DCTPatterns}

EncodeDCT ==
    /\ carrier.kind = "image"
    /\ EncodeSettles("encodeDCT", encodeDCT(carrier, message))
    /\ UNCHANGED <<request, calls, algArgs>>

DecodeDCT ==
    /\ DecodeInput.kind = "image"
    /\ DecodeSettles("decodeDCT", decodeDCT(DecodeInput))
    /\ UNCHANGED <<request, calls, algArgs>>

InitDCT == InitWith(DCTCarriers, DCTMessages)
NextDCT == EncodeDCT \/ DecodeDCT
SpecDCT == InitDCT /\ [][NextDCT]_vars

(***************************************************************************)
(* Claims about the DCT codec.                                             *)
(***************************************************************************)
\* C5: DCT capacity.  encodeDCT rejects with the capacity error exactly when
\* the framed payload's bit length exceeds the number of 8x8 blocks of the
\* three channels; in particular "HELLO" (112 framed bits) is accepted on a
\* 64x64 carrier and decodeDCT returns "HELLO" from the encoded carrier.
C5_DCTCapacity ==
    /\ encoder = "encodeDCT"
        => ((encError = Err(ErrTooLargeDCT))
                <=> (Len(FramedBits(message)) > BlockCount(carrier)))
    /\ (/\ encoder = "encodeDCT"
        /\ message = HELLO
        /\ carrier.width = 64
        /\ carrier.height = 64)
        => /\ encError = NoError
           /\ (decoder = "decodeDCT" /\ decSource = "stego")
                => decResult = Resolved(HELLO)

\* C9: DCT round trip.  For every carrier and every message that encodeDCT
\* accepts, decodeDCT on the encoded carrier resolves with exactly the
\* message, also when pixels of the carrier saturate at 0 or 255.
C9_DCTRoundTrip ==
    (/\ pc = "decoded"
     /\ encoder = "encodeDCT"
     /\ decoder = "decodeDCT"
     /\ decSource = "stego")
    => decResult = Resolved(message)

(***************************************************************************)
(* The dispatcher (steganography.ts, encodeMessage / decodeMessage).       *)
(***************************************************************************)
\* enum StegoAlgorithm and enum FileFormat, by their string values.
StegoAlgorithm == {"lsb", "dct", "dwt", "audio_phase", "audio_echo"}
FileFormat == {"image", "audio", "video", "pdf"}

\* The algorithm argument of decodeMessage when the caller omits it.
Undefined == "undefined"

ErrUnsupportedAudio(algorithm) ==
    "Unsupported algorithm " \o algorithm \o " for audio files"
ErrVideo == "Video steganography not yet implemented"
ErrPdf == "PDF steganography not yet implemented"
ErrCouldNotDetect ==
    "Could not detect encoding algorithm. No hidden message found."

\* img.onerror = () => reject(new Error("Failed to load image")): every image
\* codec first loads the data URL into an Image and runs its body on the
\* ImageData of the loaded image.  A data URL the browser cannot decode as an
\* image is a carrier of kind "image" without pixel data.
ErrFailedToLoad == "Failed to load image"

Opaque(kind) == [kind |-> kind]

Loads(url) == "data" \in DOMAIN url

OnLoadEncode(url, r) ==
    IF Loads(url) THEN r ELSE [error |-> Err(ErrFailedToLoad), out |-> NoCarrier]

OnLoadDecode(url, r) == IF Loads(url) THEN r ELSE Rejected(ErrFailedToLoad)

\* What the image decoder of that name settles with on a data URL.
DecodeImageWith(name, url, rnd) ==
    CASE name = "decodeLSB" -> OnLoadDecode(url, decodeLSB(url))
      [] name = "decodeDCT" -> OnLoadDecode(url, decodeDCT(url))
      [] name = "decodeDWT" -> OnLoadDecode(url, decodeDWT(url, rnd))

\* One candidate of the auto-detection: the codec's name and what it settles
\* with.
Attempt(name, url, rnd) ==
    [name |-> name, result |-> DecodeImageWith(name, url, rnd)]

\* The dispatcher throws by itself / returns what the codec it calls settles with.
EncodeThrows(text) == [error |-> Err(text), out |-> NoCarrier, calls |-> <<>>]
EncodeVia(name, r) == [error |-> r.error, out |-> r.out, calls |-> <<name>>]

encodeMessage(data, msg, algorithm, fileFormat, rnd) ==
    CASE fileFormat = "image" ->
            (CASE algorithm = "dct" ->
                    EncodeVia("encodeDCT",
                              OnLoadEncode(data, encodeDCT(data, msg)))
               [] algorithm = "dwt" ->
                    EncodeVia("encodeDWT",
                              OnLoadEncode(data, encodeDWT(data, msg, rnd)))
               \* case StegoAlgorithm.LSB: default:
               [] OTHER ->
                    EncodeVia("encodeLSB",
                              OnLoadEncode(data, encodeLSB(data, msg))))
      [] fileFormat = "audio" ->
            IF algorithm \in {"audio_phase", "audio_echo"}
            THEN EncodeVia("encodeAudio", encodeAudio(data, msg, algorithm))
            ELSE EncodeThrows(ErrUnsupportedAudio(algorithm))
      [] fileFormat = "video" -> EncodeThrows(ErrVideo)
      [] fileFormat = "pdf" -> EncodeThrows(ErrPdf)

TryInOrder_TriesAll(attempts, tried) ==
    LET ok == {i \in 1..Len(attempts) : attempts[i].result.ok}
        names == tried \o [i \in 1..Len(attempts) |-> attempts[i].name]
    IN IF ok = {}
       THEN [result |-> Rejected(ErrCouldNotDetect), calls |-> names]
       ELSE [result |-> attempts[CHOOSE i \in ok : \A j \in ok : i <= j].result,
             calls |-> names]

\* try { return await first } catch { try { return await second } ... }:
\* the codecs tried in order until one resolves.
RECURSIVE TryInOrder(_, _)
TryInOrder(attempts, tried) ==
    IF attempts = <<>>
    THEN [result |-> Rejected(ErrCouldNotDetect), calls |-> tried]
    ELSE IF Head(attempts).result.ok
         THEN [result |-> Head(attempts).result,
               calls |-> Append(tried, Head(attempts).name)]
         ELSE TryInOrder(Tail(attempts), Append(tried, Head(attempts).name))

ReturnDecoder_FallsThrough(name, url, rnd) ==
    LET direct == DecodeImageWith(name, url, rnd)
        detected == TryInOrder(<<Attempt("decodeLSB", url, rnd),
                                 Attempt("decodeDCT", url, rnd),
                                 Attempt("decodeDWT", url, rnd)>>,
                               <<name>>)
    IN IF direct.ok THEN [result |-> direct, calls |-> <<name>>] ELSE detected

\* return decodeDCT(fileDataUrl): the promise of the one decoder is the
\* promise decodeMessage settles with.
ReturnDecoder(name, url, rnd) ==
    [result |-> DecodeImageWith(name, url, rnd), calls |-> <<name>>]

decodeMessage(data, algorithm, fileFormat, rnd) ==
    CASE fileFormat = "image" ->
            (CASE algorithm = "dct" -> ReturnDecoder("decodeDCT", data, rnd)
               [] algorithm = "dwt" -> ReturnDecoder("decodeDWT", data, rnd)
               [] algorithm = "lsb" -> ReturnDecoder("decodeLSB", data, rnd)
               \* no algorithm, or one that no case of the switch matches:
               \* control reaches the auto-detection
               [] OTHER ->
                    TryInOrder(<<Attempt("decodeLSB", data, rnd),
                                 Attempt("decodeDCT", data, rnd),
                                 Attempt("decodeDWT", data, rnd)>>,
                               <<>>))
      [] fileFormat = "audio" ->
            IF algorithm \in {"audio_phase", "audio_echo"}
            THEN [result |-> decodeAudio(data, algorithm),
                  calls |-> <<"decodeAudio">>]
            ELSE IF algorithm = Undefined
            THEN TryInOrder(
                    <<[name |-> "decodeAudio",
                       result |-> decodeAudio(data, "audio_phase")],
                      [name |-> "decodeAudio",
                       result |-> decodeAudio(data, "audio_echo")]>>,
                    <<>>)
            ELSE [result |-> Rejected(ErrUnsupportedAudio(algorithm)),
                  calls |-> <<>>]
      [] fileFormat = "video" -> [result |-> Rejected(ErrVideo), calls |-> <<>>]
      [] fileFormat = "pdf" -> [result |-> Rejected(ErrPdf), calls |-> <<>>]

(***************************************************************************)
(* Inputs and actions of the dispatcher specification.  The caller passes  *)
(* the format of the file it holds.                                        *)
(***************************************************************************)
DispatchCarriers ==
    {MakeImage(2, 2, "black"), MakeImage(9, 6, "ramp"),
     MakeImage(6, 4, "black"),
     MakeTextured(16, 16, "flat"), MakeTextured(48, 32, "flat"),
     Opaque("image"),
     MakeAudio(8, 2, "ramp"), MakeAudio(104, 1, "silence"),
     Opaque("video"), Opaque("pdf")}

EncodeMessage ==
    \E algorithm \in StegoAlgorithm :
        LET r == encodeMessage(carrier, message, algorithm, carrier.kind,
                               rounding)
        IN /\ EncodeSettles("encodeMessage", r)
           /\ request' = [fn |-> "encodeMessage", algorithm |-> algorithm,
                          fileFormat |-> carrier.kind]
           /\ calls' = r.calls
           /\ algArgs' = [algArgs EXCEPT !.encode = algorithm]

DecodeMessage ==
    \E algorithm \in StegoAlgorithm \cup {Undefined} :
        LET r == decodeMessage(DecodeInput, algorithm, DecodeInput.kind,
                               rounding)
        IN /\ DecodeSettles("decodeMessage", r.result)
           /\ request' = [fn |-> "decodeMessage", algorithm |-> algorithm,
                          fileFormat |-> DecodeInput.kind]
           /\ calls' = r.calls
           /\ algArgs' = [algArgs EXCEPT !.decode = algorithm]

\* The toast handleDecode shows when decodeMessage has thrown
\* (StegoDecoder.tsx).
ErrDecodingFailed(fileFormat) ==
    "Could not extract message from this " \o fileFormat
        \o ". Please ensure this file contains hidden data."

\* handleDecode of StegoDecoder.tsx on the selected file, the selected
\* algorithm and the selected file format: for audio a decodeMessage that
\* throws is followed by a decodeMessage with the other audio algorithm.
handleDecode(image, algorithm, fileFormat, rnd) ==
    LET first == decodeMessage(image, algorithm, fileFormat, rnd)
        alternativeAlgorithm ==
            IF algorithm = "audio_phase" THEN "audio_echo" ELSE "audio_phase"
        second == decodeMessage(image, alternativeAlgorithm, fileFormat, rnd)
        outcome ==
            IF fileFormat = "audio" /\ ~first.result.ok
            THEN [result |-> second.result, calls |-> first.calls \o second.calls]
            ELSE first
    IN [result |-> IF outcome.result.ok THEN outcome.result
                   ELSE Rejected(ErrDecodingFailed(fileFormat)),
        calls |-> outcome.calls]

HandleDecode ==
    \E algorithm \in StegoAlgorithm :
        LET r == handleDecode(DecodeInput, algorithm, DecodeInput.kind, rounding)
        IN /\ DecodeSettles("handleDecode", r.result)
           /\ request' = [fn |-> "handleDecode", algorithm |-> algorithm,
                          fileFormat |-> DecodeInput.kind]
           /\ calls' = r.calls
           /\ algArgs' = [algArgs EXCEPT !.decode = algorithm]

InitDispatch == InitWith(DispatchCarriers, BlockMessages)
NextDispatch == EncodeMessage \/ DecodeMessage
SpecDispatch == InitDispatch /\ [][NextDispatch]_vars

\* The dispatcher together with the decoder component that calls it.
NextDecoderUI == EncodeMessage \/ DecodeMessage \/ HandleDecode
SpecDecoderUI == InitDispatch /\ [][NextDecoderUI]_vars

(***************************************************************************)
(* Claims about the dispatcher.                                            *)
(***************************************************************************)
\* The algorithm does not belong to the carrier kind.
Mismatched(algorithm, fileFormat) ==
    \/ fileFormat = "image" /\ algorithm \in {"audio_phase", "audio_echo"}
    \/ fileFormat = "audio" /\ algorithm \in {"lsb", "dct", "dwt"}

ErrUnsupported(algorithm, fileFormat) ==
    "Unsupported algorithm " \o algorithm \o " for " \o fileFormat \o " files"

\* C10: unsupported combinations fail fast.  For an audio algorithm with an
\* image carrier and for an image algorithm with an audio carrier, both
\* encodeMessage and decodeMessage reject with the unsupported-combination
\* error and call no codec.
C10_UnsupportedFailsFast ==
    (/\ request # NoRequest
     /\ Mismatched(request.algorithm, request.fileFormat))
    => /\ calls = <<>>
       /\ request.fn = "encodeMessage"
            => /\ pc = "rejected"
               /\ encError = Err(ErrUnsupported(request.algorithm,
                                                request.fileFormat))
       /\ request.fn = "decodeMessage"
            => decResult = Rejected(ErrUnsupported(request.algorithm,
                                                   request.fileFormat))

\* The data URL the last decode call was given.
DecodedUrl == IF decSource = "stego" THEN stego ELSE carrier

\* decodeMessage ran on an image without an algorithm argument.
AutoDetectedImage ==
    /\ request # NoRequest
    /\ request.fn = "decodeMessage"
    /\ request.algorithm = Undefined
    /\ request.fileFormat = "image"

ImageCandidates == <<"decodeLSB", "decodeDCT", "decodeDWT">>

CandidateFails(name) == ~DecodeImageWith(name, DecodedUrl, rounding).ok

DecoderOf(algorithm) ==
    CASE algorithm = "lsb" -> "decodeLSB"
      [] algorithm = "dct" -> "decodeDCT"
      [] algorithm = "dwt" -> "decodeDWT"

\* C12: auto-detect identifies the algorithm.  When encodeMessage has encoded
\* an image with algorithm A in {lsb, dct, dwt}, decodeMessage without an
\* algorithm on the encoded carrier resolves with the embedded message, and
\* the candidate that resolved is the decoder of A.
C12_AutoDetectIdentifies ==
    (/\ AutoDetectedImage
     /\ decSource = "stego"
     /\ encoder = "encodeMessage"
     /\ algArgs.encode \in {"lsb", "dct", "dwt"})
    => /\ decResult = Resolved(message)
       /\ calls[Len(calls)] = DecoderOf(algArgs.encode)

\* C13: cross-variant audio decode.  A carrier encoded by encodeAudio with
\* one of audio_phase / audio_echo and decoded by decodeAudio with the other
\* never resolves.
C13_CrossVariantFails ==
    (/\ AudioRoundTripDone
     /\ algArgs.encode \in AudioAlgorithms
     /\ algArgs.decode \in AudioAlgorithms
     /\ algArgs.encode # algArgs.decode)
    => ~decResult.ok

\* A decode run: one decodeMessage call, or one handleDecode with the
\* decodeMessage calls it makes.
DecodeRun ==
    /\ request # NoRequest
    /\ request.fn \in {"decodeMessage", "handleDecode"}

\* C14: no same-algorithm retry.  In a decode run no codec is invoked a
\* second time on the carrier unless the two invocations are different
\* decoding procedures, that is, unless the algorithms they are given make
\* them settle differently.
C14_NoSameAlgorithmRetry ==
    DecodeRun =>
        \A i, j \in 1..Len(calls) :
            (i < j /\ calls[i] = calls[j])
            => /\ calls[i] = "decodeAudio"
               /\ decodeAudio(DecodedUrl, "audio_phase")
                    # decodeAudio(DecodedUrl, "audio_echo")

\* C15: only algorithm-local failures are swallowed.  When the carrier of an
\* auto-detection cannot be loaded as an image, the first candidate's
\* "Failed to load image" is the outcome of decodeMessage and no further
\* candidate is tried.
C15_LoadErrorSurfaces ==
    (AutoDetectedImage /\ ~Loads(DecodedUrl))
    => /\ calls = <<"decodeLSB">>
       /\ decResult = Rejected(ErrFailedToLoad)

\* decodeMessage ran on an image with one of the image algorithms.
ExplicitImageDecode ==
    /\ request # NoRequest
    /\ request.fn = "decodeMessage"
    /\ request.fileFormat = "image"
    /\ request.algorithm \in {"lsb", "dct", "dwt"}

\* C16: explicit-algorithm dispatch.  With an algorithm in {lsb, dct, dwt} on
\* an image carrier decodeMessage invokes exactly the decoder of that
\* algorithm, once, and settles with what that decoder settles with, whether
\* it resolves or rejects.
C16_ExplicitDispatch ==
    ExplicitImageDecode =>
        /\ calls = <<DecoderOf(request.algorithm)>>
        /\ decResult = DecodeImageWith(DecoderOf(request.algorithm),
                                       DecodedUrl, rounding)

\* The requested decoder rejected a carrier that another decoder resolves.
C16_Witness ==
    /\ ExplicitImageDecode
    /\ request.algorithm = "dct"
    /\ decSource = "stego"
    /\ calls = <<"decodeDCT">>
    /\ ~decResult.ok
    /\ DecodeImageWith("decodeLSB", stego, rounding) = Resolved(message)

(***************************************************************************)
(* Claims about decoding carriers that hold no message.                    *)
(***************************************************************************)
\* The error with which a decoder reports that the carrier holds no message.
NoHiddenDataFound(name) ==
    IF name = "decodeAudio" THEN ErrNoAudioData ELSE ErrNoHidden

\* C17: decoding a never-encoded carrier fails.  Each of decodeLSB,
\* decodeDCT, decodeDWT and decodeAudio, given a carrier that no encoder has
\* touched, rejects with its no-hidden-data error and returns no payload.
C17_NeverEncodedFails ==
    (/\ pc = "decoded"
     /\ decSource = "carrier"
     /\ decoder \in {"decodeLSB", "decodeDCT", "decodeDWT", "decodeAudio"})
    => decResult = Rejected(NoHiddenDataFound(decoder))

(***************************************************************************)
(* Audio carriers with a prepared header: the least significant bits of    *)
(* the first samples spell given bytes.                                    *)
(***************************************************************************)
\* n samples of PCM value 0 or 1 whose least significant bits are the bits
\* of bytes, cut or continued with zeros to n samples.
FramedAudio(n, bytes) ==
    LET bits == bytesToBits(bytes)
    IN Audio(<<[i \in 1..n |-> IF i <= Len(bits) THEN ToFloat(bits[i]) ELSE 0]>>)

\* Length fields: 0, 1, 2, 3, 256, 2^24, 2^31 - 1, and with the top bit set
\* 2^31, 2^32 - 9, 2^32 - 8, 2^32 - 1.
HeaderLengths ==
    {<<0, 0, 0, 0>>, <<0, 0, 0, 1>>, <<0, 0, 0, 2>>, <<0, 0, 0, 3>>,
     <<0, 0, 1, 0>>, <<1, 0, 0, 0>>, <<127, 255, 255, 255>>,
     <<128, 0, 0, 0>>, <<255, 255, 255, 247>>, <<255, 255, 255, 248>>,
     <<255, 255, 255, 255>>}

\* 'STGH' and 'STGI'.
HeaderMagics == {MAGIC, <<83, 84, 71, 73>>}

\* "ABC", U+00E9 followed by 'A', and a byte that no UTF-8 text holds.
HeaderPayloads == {<<65, 66, 67>>, <<195, 169, 65>>, <<255, 65, 65>>}

HeaderSampleCounts == {29, 31, 32, 63, 64, 72, 80, 87, 88}

HeaderCarriers ==
    {FramedAudio(n, mg \o len \o pl) :
        n \in HeaderSampleCounts, mg \in HeaderMagics,
        len \in HeaderLengths, pl \in HeaderPayloads}

InitAudioHeader == InitWith(HeaderCarriers, {<<>>, <<65>>})
SpecAudioHeader == InitAudioHeader /\ [][NextAudio]_vars

(***************************************************************************)
(* Claims about the audio header.                                          *)
(***************************************************************************)
\* The first-channel samples the last decode call was given, and the least
\* significant bit of the PCM value of sample i (1-based).
DecodedSamples == DecodedUrl.channels[1]

SampleLSB(i) == ToPCM(DecodedSamples[i]) % 2

AudioDecoded == pc = "decoded" /\ decoder = "decodeAudio"

\* The carrier holds at least 32 samples and their bits are those of "STGH".
BeginsWithMagic ==
    /\ Len(DecodedSamples) >= 8 * MAGIC_BYTES
    /\ \A i \in 1..(8 * MAGIC_BYTES) : SampleLSB(i) = bytesToBits(MAGIC)[i]

\* C18: audio magic check.  For every carrier whose least significant bits
\* do not begin with the four bytes "STGH", carriers with fewer than 64
\* samples included, decodeAudio rejects with the no-hidden-data error.
C18_MagicCheck ==
    (AudioDecoded /\ ~BeginsWithMagic)
    => decResult = Rejected(ErrNoAudioData)

\* The eight header bytes as the decoder reads them: a bit past the last
\* sample reads as 0.
HeaderRead ==
    bitsToBytes([i \in 1..(8 * HEADER_BYTES) |->
                    IF i <= Len(DecodedSamples) THEN SampleLSB(i) ELSE 0])

MagicMatches == SubSeq(HeaderRead, 1, MAGIC_BYTES) = MAGIC

\* The length field L as the unsigned 32-bit value it holds: its top bit,
\* and the value of its low 31 bits.
TopBitSet == HeaderRead[5] >= 128

LowLength ==
    (HeaderRead[5] % 128) * 16777216 + HeaderRead[6] * 65536
        + HeaderRead[7] * 256 + HeaderRead[8]

\* The carrier holds 8 * (8 + L) samples.
HoldsDeclared ==
    /\ ~TopBitSet
    /\ LowLength <= (Len(DecodedSamples) \div 8) - HEADER_BYTES

\* The L bytes that follow the header.
DeclaredPayload ==
    bitsToBytes([i \in 1..(8 * LowLength) |-> SampleLSB(8 * HEADER_BYTES + i)])

CorruptPayload ==
    {ErrLengthExceeds, ErrIncomplete, ErrInvalidUtf8, ErrNotEnoughBytes}

\* C19: audio declared-length check.  When the magic matches and the carrier
\* does not hold 8 * (8 + L) samples for the 32-bit length L of the header,
\* the top bit of L set included, decodeAudio rejects with a corrupt-payload
\* error; when decodeAudio resolves, the carrier holds that many samples and
\* the payload is the text of exactly the L bytes after the header.
C19_DeclaredLength ==
    (AudioDecoded /\ MagicMatches)
    => /\ ~HoldsDeclared
            => (~decResult.ok /\ decResult.error \in CorruptPayload)
       /\ decResult.ok
            => /\ HoldsDeclared
               /\ Len(DeclaredPayload) = LowLength
               /\ decResult.value = TextDecode(DeclaredPayload).value

\* A length with the top bit set on a carrier that holds a whole header.
C19_Witness ==
    /\ AudioDecoded
    /\ MagicMatches
    /\ TopBitSet
    /\ Len(DecodedSamples) >= 8 * HEADER_BYTES
    /\ ~decResult.ok
    /\ decResult.error \in CorruptPayload

(***************************************************************************)
(* Claims about the framing of the image codecs.                           *)
(***************************************************************************)
\* C20: opaque-byte payloads in the image codecs.  For every text payload,
\* characters with code points above 255 included, the framed bit string has
\* 8 bits per payload byte, 8 * (payload length + 9) in all (the payload
\* length counted in characters or in UTF-8 bytes), and a payload without
\* the end marker that fits the carrier is reproduced exactly by decodeLSB.
C20_OpaqueBytes ==
    encoder = "encodeLSB" =>
        /\ Len(FramedBits(message)) \in
                {8 * (Len(message) + 9), 8 * (Len(TextEncode(message)) + 9)}
        /\ (/\ LSBRoundTripDone
            /\ ~Contains(message, END_MARKER)
            /\ Len(FramedBits(message)) <= EligibleCount(Len(carrier.data)))
            => decResult = Resolved(message)

(***************************************************************************)
(* Claims about the audio frame and the samples encodeAudio writes.        *)
(***************************************************************************)
FramedBytes == messageToBytes(message)
FramedAudioBits == bytesToBits(FramedBytes)

\* Bit k (1 = most significant) of a byte.
BitOfByte(byte, k) == (byte \div (2 ^ (8 - k))) % 2

\* C21: audio framing layout.  For every payload the byte sequence of
\* messageToBytes is the 4 ASCII bytes "STGH", then the payload's UTF-8 byte
\* length as a 4-byte big-endian integer, then the payload bytes, and
\* bytesToBits flattens it most significant bit first into exactly
\* 8 * (8 + len) bits.
C21_FramingLayout ==
    LET payload == TextEncode(message)
        len == Len(payload)
        bytes == FramedBytes
        bits == bytesToBits(bytes)
    IN /\ Len(bytes) = 8 + len
       /\ SubSeq(bytes, 1, 4) = <<83, 84, 71, 72>>
       /\ bytes[5] * 16777216 + bytes[6] * 65536 + bytes[7] * 256 + bytes[8] = len
       /\ \A j \in 5..8 : bytes[j] \in 0..255
       /\ SubSeq(bytes, 9, 8 + len) = payload
       /\ TextDecode(payload) = [ok |-> TRUE, value |-> message]
       /\ Len(bits) = 8 * (8 + len)
       /\ \A j \in 1..(8 + len) : \A k \in 1..8 :
              bits[8 * (j - 1) + k] = BitOfByte(bytes[j], k)

\* encodeAudio has framed a payload that has multi-byte characters.
C21_Witness ==
    /\ encoder = "encodeAudio"
    /\ pc = "encoded"
    /\ Len(message) = 2
    /\ Len(TextEncode(message)) = 5
    /\ Len(FramedAudioBits) = 104

AudioEncoded ==
    /\ encoder = "encodeAudio"
    /\ pc = "encoded"

\* The 16-bit sample written to the output file for channel c, index i
\* (both 1-based), and the PCM conversion of the input sample.
WrittenPCM(c, i) == stego.channels[c][i] \div 2
OriginalPCM(c, i) == ToPCM(carrier.channels[c][i])

\* Two 16-bit values with the same upper 15 bits.
SameButLSB(a, b) == a - (a % 2) = b - (b % 2)

\* C22: audio frame condition.  After encodeAudio with a framed bit string
\* of n bits, every first-channel PCM sample at index >= n equals the PCM
\* conversion of the original sample, every sample at index < n differs from
\* the original PCM value at most in its least significant bit, and every
\* other channel is written out equal to the original.
C22_AudioFrame ==
    AudioEncoded =>
        LET n == Len(FramedAudioBits)
        IN /\ Len(stego.channels) = Len(carrier.channels)
           /\ \A c \in 1..Len(carrier.channels) :
                  Len(stego.channels[c]) = Len(carrier.channels[c])
           /\ \A i \in 1..NumSamples :
                  IF i > n THEN WrittenPCM(1, i) = OriginalPCM(1, i)
                  ELSE SameButLSB(WrittenPCM(1, i), OriginalPCM(1, i))
           /\ \A c \in 2..Len(carrier.channels) : \A i \in 1..NumSamples :
                  WrittenPCM(c, i) = OriginalPCM(c, i)

\* A two-channel carrier longer than the frame, with a sample whose bit was
\* flipped and non-zero samples after the frame and in the second channel.
C22_Witness ==
    /\ AudioEncoded
    /\ Len(carrier.channels) = 2
    /\ NumSamples > Len(FramedAudioBits)
    /\ \E i \in 1..Len(FramedAudioBits) : WrittenPCM(1, i) # OriginalPCM(1, i)
    /\ WrittenPCM(1, NumSamples) # 0
    /\ \E i \in 1..NumSamples : WrittenPCM(2, i) # WrittenPCM(1, i)

(***************************************************************************)
(* Frame conditions of the image codecs.                                   *)
(***************************************************************************)
LSBEncoded ==
    /\ encoder = "encodeLSB"
    /\ pc = "encoded"

\* Source index (0-based) of the k-th non-alpha byte in scan order (k from 0).
NonAlphaIndex(k) == 4 * (k \div 3) + (k % 3)

\* C23: bit-plane frame condition.  After encodeLSB with a framed bit string
\* of n bits, every alpha byte (index i with i mod 4 = 3) is unchanged, the
\* k-th non-alpha byte in scan order (k < n) has least significant bit equal
\* to bit k and its upper 7 bits unchanged, and every non-alpha byte after
\* the n-th is unchanged.
C23_LSBFrame ==
    LSBEncoded =>
        LET bits == FramedBits(message)
            n == Len(bits)
            size == Len(carrier.data)
        IN /\ Len(stego.data) = size
           /\ stego.width = carrier.width
           /\ stego.height = carrier.height
           /\ \A i \in 0..(size - 1) :
                  i % 4 = 3 => stego.data[i + 1] = carrier.data[i + 1]
           /\ \A k \in 0..(size - 1) :
                  LET i == NonAlphaIndex(k)
                  IN i < size =>
                        IF k < n
                        THEN /\ stego.data[i + 1] % 2 = bits[k + 1]
                             /\ stego.data[i + 1] \div 2 = carrier.data[i + 1] \div 2
                        ELSE stego.data[i + 1] = carrier.data[i + 1]

\* A carrier with more non-alpha bytes than framed bits, whose alpha bytes are
\* not all opaque; a bit was flipped and a byte after the frame has bit 1 set.
C23_Witness ==
    /\ LSBEncoded
    /\ Len(FramedBits(message)) < EligibleCount(Len(carrier.data))
    /\ Len(message) > 0
    /\ \E i \in 1..Len(carrier.data) : stego.data[i] # carrier.data[i]
    /\ \E i \in 1..Len(carrier.data) : (i - 1) % 4 = 3 /\ carrier.data[i] # 255
    /\ stego.data[Len(carrier.data) - 1] % 2 = 1

(***************************************************************************)
(* The parity rule of embedInDCT and embedInDWT on one coefficient.  The   *)
(* coefficient is held in halves, so that exact ties of Math.round occur;  *)
(* embedInDCT is handed quantised coefficients, which are integers, and    *)
(* takes Math.round of them all the same.                                  *)
(***************************************************************************)
MaxCoeff == 6

CoefficientHalves == (-2 * MaxCoeff)..(2 * MaxCoeff)

\* The codec variables of a behaviour that does not run a codec.
CodecIdle(roundings) ==
    /\ carrier = NoCarrier
    /\ message = <<>>
    /\ pc = "input"
    /\ encoder = "none"
    /\ stego = NoCarrier
    /\ encError = NoError
    /\ decoder = "none"
    /\ decSource = "none"
    /\ decResult = Pending
    /\ request = NoRequest
    /\ calls = <<>>
    /\ algArgs = NoAlgArgs
    /\ rounding \in roundings

InitParity ==
    /\ CodecIdle({r \in TiePolicies : r.pixel = "up"})
    /\ parity \in [pc : {"input"}, codec : {"DCT", "DWT"},
                   coeff2 : CoefficientHalves, bit : {0, 1},
                   stored : {0}, read : {-1}]
    /\ auth = NoAuth
    /\ enc = NoEncodeRun
    /\ dec = NoDecodeRun
    /\ cloud = NoCloud
    /\ upl = NoUpload

ParityFrame == UNCHANGED <<codecVars, auth, enc, dec, cloud, upl>>

\* One iteration of the loop of embedInDCT: block[4][5] is replaced.
EmbedInDCT ==
    /\ parity.pc = "input"
    /\ parity.codec = "DCT"
    /\ parity' = [parity EXCEPT
          !.pc = "embedded",
          !.stored = EmbedParityDCT(RoundHalves(parity.coeff2, rounding.coefficient),
                                    parity.bit)]
    /\ ParityFrame

\* One iteration of the loop of embedInDWT: HH[0][0] is replaced.
EmbedInDWT ==
    /\ parity.pc = "input"
    /\ parity.codec = "DWT"
    /\ parity' = [parity EXCEPT
          !.pc = "embedded",
          !.stored = EmbedParityDWT(RoundHalves(parity.coeff2, rounding.coefficient),
                                    parity.bit)]
    /\ ParityFrame

\* One iteration of the loop of extractFromDCT on the stored coefficient.
ExtractFromDCT ==
    /\ parity.pc = "embedded"
    /\ parity.codec = "DCT"
    /\ parity' = [parity EXCEPT
          !.pc = "extracted",
          !.read = ParityBit(RoundHalves(2 * parity.stored, rounding.coefficient))]
    /\ ParityFrame

\* One iteration of the loop of extractFromDWT on the stored coefficient.
ExtractFromDWT ==
    /\ parity.pc = "embedded"
    /\ parity.codec = "DWT"
    /\ parity' = [parity EXCEPT
          !.pc = "extracted",
          !.read = ParityBit(RoundHalves(2 * parity.stored, rounding.coefficient))]
    /\ ParityFrame

NextParity == EmbedInDCT \/ EmbedInDWT \/ ExtractFromDCT \/ ExtractFromDWT
SpecParity == InitParity /\ [][NextParity]_vars

Rounded == RoundHalves(parity.coeff2, rounding.coefficient)

\* C24: coefficient-parity embedding.  For every coefficient value c
\* (positive, zero or negative) and bit b, embedInDCT and embedInDWT store a
\* value c' with |c' - round(c)| <= 1, c' = round(c) when the parity of
\* round(c) already equals b, and the extractor's parity test on c' returns b.
C24_ParityEmbedding ==
    parity.pc \in {"embedded", "extracted"} =>
        /\ parity.stored - Rounded \in {-1, 0, 1}
        /\ (Rounded % 2 = parity.bit) => (parity.stored = Rounded)
        /\ parity.stored % 2 = parity.bit
        /\ (parity.pc = "extracted") => (parity.read = parity.bit)

\* A negative odd coefficient whose parity had to change, read back.
C24_Witness ==
    /\ parity.pc = "extracted"
    /\ parity.codec = "DWT"
    /\ Rounded < 0
    /\ Rounded % 2 = 1
    /\ parity.bit = 0
    /\ parity.stored = Rounded - 1
    /\ parity.read = 0

\* C25: the embedded bit survives the WAV serialisation.  For every
\* first-channel sample whose PCM value lies in [-32767, 32767], full-scale
\* negative samples included, and every bit b written at that index, the
\* 16-bit sample that bufferToWav writes to the output file has least
\* significant bit equal to b.
C25_BitSurvivesWav ==
    AudioEncoded =>
        LET bits == FramedAudioBits
        IN \A i \in 1..Len(bits) :
              (OriginalPCM(1, i) >= -32767 /\ OriginalPCM(1, i) <= 32767)
                  => WrittenPCM(1, i) % 2 = bits[i]

TransformEncoded ==
    /\ encoder \in {"encodeDCT", "encodeDWT"}
    /\ pc = "encoded"

\* Source index p (0-based) of the pixel buffer: its channel, and the index
\* of the 8x8 block of its channel in the order the embedding loops visit them
\* (-1 for a pixel in a trailing partial row or column).
ChannelOf(p) == p % 4

BlockIndexOf(img, p) ==
    LET px == (p \div 4) % img.width
        py == (p \div 4) \div img.width
    IN IF px \div 8 < img.width \div 8 /\ py \div 8 < img.height \div 8
       THEN ChannelOf(p) * ((img.width \div 8) * (img.height \div 8))
                + (py \div 8) * (img.width \div 8) + (px \div 8)
       ELSE -1

\* C26: transform-codec frame condition.  encodeDCT and encodeDWT never
\* modify alpha bytes nor pixels in the trailing partial rows and columns
\* outside the 8-aligned region, and they leave unchanged the pixels of every
\* 8x8 block that lies after the last block used for a payload bit.
C26_TransformFrame ==
    TransformEncoded =>
        LET n == Len(FramedBits(message))
        IN /\ Len(stego.data) = Len(carrier.data)
           /\ \A p \in 0..(Len(carrier.data) - 1) :
                  (\/ ChannelOf(p) = 3
                   \/ BlockIndexOf(carrier, p) = -1
                   \/ BlockIndexOf(carrier, p) >= n)
                      => stego.data[p + 1] = carrier.data[p + 1]

(***************************************************************************)
(* AuthProvider (src/unnamed/part_008).  getUser, signIn and signOut are   *)
(* calls to the Supabase client and fetchHistory is getUser followed by a  *)
(* select on stego_history (src/unnamed/part_001); each is a request in    *)
(* flight until it settles.  getUser answers with the session as it is     *)
(* when the call settles; the select answers with the rows of the user id  *)
(* it was sent for.  The continuation after an await runs in the step in   *)
(* which the awaited call settles.                                         *)
(***************************************************************************)
Null == "null"
Users == {"u1"}

MaxAuthOps == 3

\* The awaits a run of loadUser, loadHistory, login or logout can be at.
AwaitGetUser == [at |-> "loadUser: getUser"]
AwaitHistoryUser == [at |-> "fetchHistory: getUser"]
AwaitSelect(userId) == [at |-> "fetchHistory: select", userId |-> userId]
AwaitSignIn(userId) == [at |-> "login: signIn", userId |-> userId]
AwaitSignOut == [at |-> "logout: signOut"]

Awaits ==
    {AwaitGetUser, AwaitHistoryUser, AwaitSignOut}
        \cup {AwaitSelect(u) : u \in Users} \cup {AwaitSignIn(u) : u \in Users}

\* Pending continuations: how many runs stand at each await.
NonePending == [a \in Awaits |-> 0]
Spawn(pending, a) == [pending EXCEPT ![a] = @ + 1]
Settle(pending, a) == [pending EXCEPT ![a] = @ - 1]

HistoryRow(id, userId) ==
    [id |-> id, user_id |-> userId, stego_file_id |-> "f1", original_file_id |-> Null]

\* A Supabase project without objects or rows, the client holding session.
EmptyCloud(session) ==
    [session |-> session, objects |-> {}, files |-> {}, history |-> {}, nextId |-> 1]

\* const dbHistory = await fetchHistory(); dbHistory.map(...): the entries
\* setHistory receives, one per row.
LocalHistory(rows) == {[id |-> r.id, userId |-> r.user_id] : r \in rows}

\* The else branch and the catch branch of loadUser, and logout's resets.
SignedOutState(a) == [a EXCEPT !.user = Null, !.isAuthenticated = FALSE, !.history = {}]

InitAuth ==
    /\ CodecIdle({ExactTies})
    /\ parity = NoParity
    /\ enc = NoEncodeRun
    /\ dec = NoDecodeRun
    /\ upl = NoUpload
    /\ \E session \in Users \cup {Null} :
          cloud \in {EmptyCloud(session),
                     [EmptyCloud(session) EXCEPT !.history = {HistoryRow("h1", "u1")}]}
    /\ auth = [user |-> Null, isAuthenticated |-> FALSE, history |-> {},
               mounted |-> FALSE, pending |-> NonePending, ops |-> 0]

AuthFrame == UNCHANGED <<codecVars, parity, enc, dec, upl>>

\* useEffect(() => { loadUser(); supabase.auth.onAuthStateChange(...) }, [])
Mount ==
    /\ ~auth.mounted
    /\ auth' = [auth EXCEPT !.mounted = TRUE,
                            !.pending = Spawn(@, AwaitGetUser)]
    /\ UNCHANGED cloud
    /\ AuthFrame

\* The client refreshes its token: the TOKEN_REFRESHED event calls loadUser.
TokenRefreshed ==
    /\ auth.mounted
    /\ cloud.session # Null
    /\ auth.ops < MaxAuthOps
    /\ auth' = [auth EXCEPT !.ops = @ + 1, !.pending = Spawn(@, AwaitGetUser)]
    /\ UNCHANGED cloud
    /\ AuthFrame

\* login(email, password): throws on an empty argument, else awaits signIn.
Login ==
    /\ auth.mounted
    /\ auth.ops < MaxAuthOps
    /\ \E email \in {"", "u1"}, password \in {"", "secret"} :
          IF email = "" \/ password = ""
          THEN auth' = [auth EXCEPT !.ops = @ + 1]
          ELSE auth' = [auth EXCEPT !.ops = @ + 1,
                                    !.pending = Spawn(@, AwaitSignIn(email))]
    /\ UNCHANGED cloud
    /\ AuthFrame

\* signIn settles.  Resolved: the session is the user's, the SIGNED_IN event
\* calls loadUser and so does login.  Rejected: login rejects.
SignInSettles ==
    /\ \E u \in Users :
          /\ auth.pending[AwaitSignIn(u)] > 0
          /\ \E ok \in BOOLEAN :
                IF ok
                THEN /\ cloud' = [cloud EXCEPT !.session = u]
                     /\ auth' = [auth EXCEPT
                            !.pending = Spawn(Spawn(Settle(@, AwaitSignIn(u)),
                                                    AwaitGetUser), AwaitGetUser)]
                ELSE /\ auth' = [auth EXCEPT !.pending = Settle(@, AwaitSignIn(u))]
                     /\ UNCHANGED cloud
    /\ AuthFrame

\* logout(): awaits signOut.
Logout ==
    /\ auth.mounted
    /\ auth.ops < MaxAuthOps
    /\ auth' = [auth EXCEPT !.ops = @ + 1, !.pending = Spawn(@, AwaitSignOut)]
    /\ UNCHANGED cloud
    /\ AuthFrame

\* signOut settles.  Resolved: the session is gone, the SIGNED_OUT event
\* calls loadUser, and logout does setUser(null), setIsAuthenticated(false),
\* setHistory([]).  Rejected: logout rejects.
SignOutSettles ==
    /\ auth.pending[AwaitSignOut] > 0
    /\ \E ok \in BOOLEAN :
          IF ok
          THEN /\ cloud' = [cloud EXCEPT !.session = Null]
               /\ auth' = [SignedOutState(auth) EXCEPT
                      !.pending = Spawn(Settle(@, AwaitSignOut), AwaitGetUser)]
          ELSE /\ auth' = [auth EXCEPT !.pending = Settle(@, AwaitSignOut)]
               /\ UNCHANGED cloud
    /\ AuthFrame

\* refreshHistory(): if (isAuthenticated) await loadHistory()
RefreshHistory ==
    /\ auth.mounted
    /\ auth.ops < MaxAuthOps
    /\ auth' = IF auth.isAuthenticated
               THEN [auth EXCEPT !.ops = @ + 1,
                                 !.pending = Spawn(@, AwaitHistoryUser)]
               ELSE [auth EXCEPT !.ops = @ + 1]
    /\ UNCHANGED cloud
    /\ AuthFrame

\* loadUser after await getUser(): a user sets user and isAuthenticated and
\* calls loadHistory; no user, or a rejection, resets the three.
LoadUserContinues ==
    /\ auth.pending[AwaitGetUser] > 0
    /\ \E ok \in BOOLEAN :
          auth' = IF ok /\ cloud.session # Null
                  THEN [auth EXCEPT
                          !.user = cloud.session,
                          !.isAuthenticated = TRUE,
                          !.pending = Spawn(Settle(@, AwaitGetUser), AwaitHistoryUser)]
                  ELSE [SignedOutState(auth) EXCEPT
                          !.pending = Settle(@, AwaitGetUser)]
    /\ UNCHANGED cloud
    /\ AuthFrame

\* fetchHistory after its getUser: without a user id it throws and
\* loadHistory's catch does setHistory([]); with one the select is sent.
FetchHistorySelects ==
    /\ auth.pending[AwaitHistoryUser] > 0
    /\ auth' = IF cloud.session = Null
               THEN [auth EXCEPT !.history = {},
                                 !.pending = Settle(@, AwaitHistoryUser)]
               ELSE [auth EXCEPT
                       !.pending = Spawn(Settle(@, AwaitHistoryUser),
                                         AwaitSelect(cloud.session))]
    /\ UNCHANGED cloud
    /\ AuthFrame

\* loadHistory after await fetchHistory(): setHistory(localHistory), or
\* setHistory([]) in the catch.
LoadHistoryContinues ==
    /\ \E u \in Users :
          /\ auth.pending[AwaitSelect(u)] > 0
          /\ \E ok \in BOOLEAN :
                auth' = [auth EXCEPT
                           !.history = IF ok
                                       THEN LocalHistory({r \in cloud.history :
                                                             r.user_id = u})
                                       ELSE {},
                           !.pending = Settle(@, AwaitSelect(u))]
    /\ UNCHANGED cloud
    /\ AuthFrame

NextAuth ==
    \/ Mount
    \/ TokenRefreshed
    \/ Login
    \/ SignInSettles
    \/ Logout
    \/ SignOutSettles
    \/ RefreshHistory
    \/ LoadUserContinues
    \/ FetchHistorySelects
    \/ LoadHistoryContinues

SpecAuth == InitAuth /\ [][NextAuth]_vars

\* All pending asynchronous continuations have run.
AuthQuiescent == auth.mounted /\ auth.pending = NonePending

\* C27: auth state under interleaving.  After any interleaving of loadUser
\* runs, login, logout and refreshHistory, once all pending continuations
\* have run, a signed-out session has user = null, isAuthenticated = false
\* and an empty history: a late completion of getUser or fetchHistory that
\* was started before logout never re-populates them.
C27_SignedOutIsEmpty ==
    (AuthQuiescent /\ cloud.session = Null) =>
        /\ auth.user = Null
        /\ auth.isAuthenticated = FALSE
        /\ auth.history = {}

(***************************************************************************)
(* uploadFile (src/src/lib/uploadFile.ts): one step per await.             *)
(***************************************************************************)
MaxUploads == 2

ErrNotAuthenticated == "Not authenticated"
ErrBucketNotFound == "Upload failed: Storage bucket 'stego-files' not found. Create it in Supabase -> Storage, or change the bucket name in code."
ErrStorage == "storage error"
ErrDigest == "digest error"
ErrDatabase == "database error"

\* A character sanitizeName keeps: [\w.\-]
IsSafeChar(c) ==
    \/ c \in 48..57
    \/ c \in 65..90
    \/ c \in 97..122
    \/ c \in {95, 46, 45}

\* name.replace(/[^\w.\-]+/g, "_"): every run of other characters becomes
\* one underscore.
RECURSIVE sanitizeName(_)
sanitizeName(name) ==
    IF Len(name) = 0 THEN <<>>
    ELSE IF IsSafeChar(name[1]) THEN <<name[1]>> \o sanitizeName(Tail(name))
    ELSE IF Len(name) >= 2 /\ ~IsSafeChar(name[2]) THEN sanitizeName(Tail(name))
    ELSE <<95>> \o sanitizeName(Tail(name))

\* `${userId}/${crypto.randomUUID()}_${safeName}`
StorageKey(userId, uuid, safeName) ==
    [userId |-> userId, uuid |-> uuid, safeName |-> safeName]

\* The row inserted into files (sha256 and size_bytes follow from the file).
FilesRow(id, userId, file, key) ==
    [id |-> id, user_id |-> userId, filename |-> file.name, storage_key |-> key]

File(name) == [name |-> name]

\* "a.png" and "a !b"
UploadFiles == {File(<<97, 46, 112, 110, 103>>), File(<<97, 32, 33, 98>>)}

UploadIdle ==
    [pc |-> "idle", file |-> Null, userId |-> Null, key |-> Null,
     result |-> Pending, runs |-> 0,
     \* the objects and rows there were when the run began
     atCall |-> [objects |-> {}, files |-> {}]]

\* uploadFile(file) is called: it awaits supabase.auth.getUser().
CallUploadFile(u, cl, file) ==
    [u EXCEPT !.pc = "getUser", !.file = file, !.userId = Null, !.key = Null,
              !.result = Pending, !.runs = @ + 1,
              !.atCall = [objects |-> cl.objects, files |-> cl.files]]

UploadSettled == upl.pc \in {"idle", "resolved", "rejected"}

UploadThrows(text) == [upl EXCEPT !.pc = "rejected", !.result = Rejected(text)]

UploadFrame == UNCHANGED <<codecVars, parity, auth, enc, dec>>

\* if (!userData.user) throw new Error("Not authenticated"); userId, key
UploadFileGetUser ==
    /\ upl.pc = "getUser"
    /\ IF cloud.session = Null
       THEN /\ upl' = UploadThrows(ErrNotAuthenticated)
            /\ UNCHANGED cloud
       ELSE /\ upl' = [upl EXCEPT
                  !.pc = "listBuckets",
                  !.userId = cloud.session,
                  !.key = StorageKey(cloud.session, cloud.nextId,
                                     sanitizeName(upl.file.name))]
            /\ cloud' = [cloud EXCEPT !.nextId = @ + 1]
    /\ UploadFrame

\* try { await supabase.storage.listBuckets() } catch (e) { console.warn }
UploadFileListBuckets ==
    /\ upl.pc = "listBuckets"
    /\ \E ok \in BOOLEAN : upl' = [upl EXCEPT !.pc = "upload"]
    /\ UNCHANGED cloud
    /\ UploadFrame

\* await supabase.storage.from("stego-files").upload(key, file, ...);
\* if (upErr) throw
UploadFileStore ==
    /\ upl.pc = "upload"
    /\ \E outcome \in {"ok", "bucket not found", "error"} :
          CASE outcome = "ok" ->
                 /\ cloud' = [cloud EXCEPT !.objects = @ \cup {upl.key}]
                 /\ upl' = [upl EXCEPT !.pc = "digest"]
            [] outcome = "bucket not found" ->
                 /\ upl' = UploadThrows(ErrBucketNotFound)
                 /\ UNCHANGED cloud
            [] outcome = "error" ->
                 /\ upl' = UploadThrows(ErrStorage)
                 /\ UNCHANGED cloud
    /\ UploadFrame

\* await file.arrayBuffer(); await crypto.subtle.digest("SHA-256", ...)
UploadFileDigest ==
    /\ upl.pc = "digest"
    /\ \E ok \in BOOLEAN :
          upl' = IF ok THEN [upl EXCEPT !.pc = "insert"]
                 ELSE UploadThrows(ErrDigest)
    /\ UNCHANGED cloud
    /\ UploadFrame

\* await supabase.from("files").insert({...}).select().single();
\* if (dbErr) throw dbErr; return row
UploadFileInsert ==
    /\ upl.pc = "insert"
    /\ \E ok \in BOOLEAN :
          IF ok
          THEN LET row == FilesRow(cloud.nextId, upl.userId, upl.file, upl.key)
               IN /\ cloud' = [cloud EXCEPT !.files = @ \cup {row},
                                            !.nextId = @ + 1]
                  /\ upl' = [upl EXCEPT !.pc = "resolved", !.result = Resolved(row)]
          ELSE /\ upl' = UploadThrows(ErrDatabase)
               /\ UNCHANGED cloud
    /\ UploadFrame

\* A caller uploads a file.
UploadFile ==
    /\ UploadSettled
    /\ upl.runs < MaxUploads
    /\ \E file \in UploadFiles : upl' = CallUploadFile(upl, cloud, file)
    /\ UNCHANGED cloud
    /\ UploadFrame

InitUpload ==
    /\ CodecIdle({ExactTies})
    /\ parity = NoParity
    /\ auth = NoAuth
    /\ enc = NoEncodeRun
    /\ dec = NoDecodeRun
    /\ cloud \in {EmptyCloud(s) : s \in Users \cup {Null}}
    /\ upl = UploadIdle

NextUpload ==
    \/ UploadFile
    \/ UploadFileGetUser
    \/ UploadFileListBuckets
    \/ UploadFileStore
    \/ UploadFileDigest
    \/ UploadFileInsert
SpecUpload == InitUpload /\ [][NextUpload]_vars

\* C30: upload record consistency.  In uploadFile a row is inserted into the
\* files table only after the storage upload of the same key succeeded, no
\* upload or insert happens when there is no authenticated user, and after
\* any failing run (storage error or database insert error) there is no
\* stored object without a files row.
C30_UploadConsistency ==
    /\ \A row \in cloud.files : row.storage_key \in cloud.objects
    /\ (upl.pc = "rejected" /\ upl.result.error = ErrNotAuthenticated)
          => (cloud.objects = upl.atCall.objects /\ cloud.files = upl.atCall.files)
    /\ \A key \in cloud.objects : key.userId # Null
    /\ \A row \in cloud.files : row.user_id # Null
    /\ (/\ upl.pc = "rejected"
        /\ upl.result.error \in {ErrBucketNotFound, ErrStorage, ErrDatabase})
          => \A key \in cloud.objects : \E row \in cloud.files : row.storage_key = key

(***************************************************************************)
(* StegoEncoder.handleEncode (src/unnamed/part_002): one step per await.   *)
(* The calls of uploadFile run as the steps above; refreshHistory runs as  *)
(* the loadHistory steps of AuthProvider.                                  *)
(***************************************************************************)
MaxEncodeRuns == 1

\* Decimal digits of a natural, as code units.
RECURSIVE Decimal(_)
Decimal(n) == IF n < 10 THEN <<48 + n>> ELSE Decimal(n \div 10) \o <<48 + (n % 10)>>

\* The elements of a number array as JSON.stringify writes them.
RECURSIVE JoinNumbers(_)
JoinNumbers(numbers) ==
    IF Len(numbers) = 0 THEN <<>>
    ELSE IF Len(numbers) = 1 THEN Decimal(numbers[1])
    ELSE Decimal(numbers[1]) \o <<44>> \o JoinNumbers(Tail(numbers))

\* encryptWithPassword: 16 bytes of salt, 12 of iv, and the AES-GCM
\* ciphertext, which is the UTF-8 plaintext length plus a 16-byte tag.  The
\* random and encrypted bytes are stood for by one byte value, the least or
\* the greatest.
encryptWithPassword(password, plaintext, byte) ==
    [salt |-> [i \in 1..16 |-> byte],
     iv |-> [i \in 1..12 |-> byte],
     ciphertext |-> [i \in 1..(Len(TextEncode(plaintext)) + 16) |-> byte]]

\* JSON.stringify(encryptedPayload):
\* {"salt":[...],"iv":[...],"ciphertext":[...]}
JSONStringify(payload) ==
    <<123, 34, 115, 97, 108, 116, 34, 58, 91>> \o JoinNumbers(payload.salt)
        \o <<93, 44, 34, 105, 118, 34, 58, 91>> \o JoinNumbers(payload.iv)
        \o <<93, 44, 34, 99, 105, 112, 104, 101, 114, 116, 101, 120, 116, 34, 58, 91>>
        \o JoinNumbers(payload.ciphertext) \o <<93, 125>>

\* generateHash(data): the SHA-256 of the data, kept as the data it is of.
generateHash(data) == [sha256 |-> data]

\* What a state or a local holds before it is given a value: the hash "",
\* a null File, a null file id, and no call of saveStegoHistory yet.
NoHash == [sha256 |-> NoCarrier]
NoFile == [name |-> <<>>]
NullId == 0
NoSave == [stego_file_id |-> NullId]

\* "png", "wav", "mp4", "pdf"
Extension(fileFormat) ==
    CASE fileFormat = "audio" -> <<119, 97, 118>>
      [] fileFormat = "video" -> <<109, 112, 52>>
      [] fileFormat = "pdf" -> <<112, 100, 102>>
      [] OTHER -> <<112, 110, 103>>

\* new File([blob], `encoded_${Date.now()}.${extension}`)
EncodedFile(now, fileFormat) ==
    File(<<101, 110, 99, 111, 100, 101, 100, 95>> \o Decimal(now) \o <<46>>
             \o Extension(fileFormat))

\* The row saveStegoHistory inserts into stego_history.
StegoHistoryRow(id, userId, params) ==
    [id |-> id, user_id |-> userId,
     original_file_id |-> params.original_file_id,
     stego_file_id |-> params.stego_file_id,
     algorithm |-> params.algorithm,
     encrypted |-> params.encrypted,
     metadata |-> params.metadata]

ToastMissingInputs == "Missing inputs"
ToastPasswordRequired == "Password required"
ToastEncodingFailed == "Encoding failed"
ToastUploadFailed == "Encoding successful (upload failed)"
ToastEncodingSuccessful == "Encoding successful"

\* finally { setIsEncoding(false) }: the run is over.
Finally_KeepsBusy(e) == [e EXCEPT !.pc = "idle"]
Finally(e) == [e EXCEPT !.isEncoding = FALSE, !.pc = "idle"]

\* The outer catch, and the catch around the upload.
EncodingFailed(e) == Finally([e EXCEPT !.toast = ToastEncodingFailed])
UploadFailed(e) == Finally([e EXCEPT !.toast = ToastUploadFailed])

\* if (isAuthenticated) { ...upload... } else { toast }
ShouldUpload_Always(isAuthenticated) == TRUE
ShouldUpload(isAuthenticated) == isAuthenticated

\* The carriers, messages and settings a user gives the encoder.
EncoderImages ==
    {NoCarrier, MakeImage(9, 6, "ramp"), MakeImage(20, 16, "ramp"),
     MakeImage(2, 2, "ramp")}

EncoderInputs ==
    [image : EncoderImages,
     originalFile : {NoFile, File(<<97, 46, 112, 110, 103>>)},
     message : {<<>>, <<65>>},
     usePassword : BOOLEAN,
     password : {<<>>, <<112, 119>>}]

\* The calls of encodeMessage that handleEncode makes on these inputs, and
\* what each settles to.
EncodeCalls ==
    [data : EncoderImages \ {NoCarrier},
     msg : {in.message : in \in EncoderInputs}
              \cup {JSONStringify(encryptWithPassword(in.password, in.message, byte)) :
                       in \in EncoderInputs, byte \in {0, 255}},
     algorithm : {"lsb"}, fileFormat : {"image"}, rnd : {ExactTies}]

EncodeOutcomes ==
    {[call |-> c,
      settles |-> encodeMessage(c.data, c.msg, c.algorithm, c.fileFormat, c.rnd)] :
        c \in EncodeCalls}

EncodeOutcome(c) == (CHOOSE o \in EncodeOutcomes : o.call = c).settles

EncoderIdle(in) ==
    [image |-> in.image, originalFile |-> in.originalFile, message |-> in.message,
     usePassword |-> in.usePassword, password |-> in.password,
     algorithm |-> "lsb", fileFormat |-> "image",
     encodedImage |-> NoCarrier, hash |-> NoHash, isEncoding |-> FALSE,
     uploadedFileId |-> NullId,
     \* the run: its position, its locals, the value of isAuthenticated it
     \* sees, its saveStegoHistory call and its toast
     pc |-> "idle", isAuthenticated |-> FALSE, messageToEncode |-> <<>>,
     imageHash |-> NoHash, encodedFile |-> NoFile, stegoFileRowId |-> NullId,
     originalUpload |-> "none", originalFileId |-> NullId, saved |-> NoSave,
     toast |-> "", runs |-> 0]

AuthMounted(user) ==
    [user |-> user, isAuthenticated |-> user # Null, history |-> {},
     mounted |-> TRUE, pending |-> NonePending, ops |-> 0]

InitEncoderUI ==
    /\ CodecIdle({ExactTies})
    /\ parity = NoParity
    /\ dec = NoDecodeRun
    /\ upl = UploadIdle
    /\ cloud \in {EmptyCloud(s) : s \in Users \cup {Null}}
    /\ auth \in {AuthMounted(u) : u \in Users \cup {Null}}
    /\ enc \in {EncoderIdle(in) : in \in EncoderInputs}

EncoderFrame == UNCHANGED <<codecVars, parity, dec>>


\* The button is enabled: disabled={!image || !message || isEncoding}.
\* handleEncode up to its first await: the two validations return after a
\* toast; otherwise setIsEncoding(true) and the encryption or the encoding
\* is awaited.
HandleEncode ==
    /\ enc.pc = "idle"
    /\ ~enc.isEncoding
    /\ enc.runs < MaxEncodeRuns
    /\ LET e == [enc EXCEPT !.runs = @ + 1,
                            !.isAuthenticated = auth.isAuthenticated,
                            !.messageToEncode = enc.message,
                            !.imageHash = NoHash, !.encodedFile = NoFile,
                            !.stegoFileRowId = NullId, !.originalUpload = "none",
                            !.originalFileId = NullId, !.saved = NoSave]
       IN enc' = IF enc.image = NoCarrier \/ enc.message = <<>>
                 THEN [e EXCEPT !.toast = ToastMissingInputs]
                 ELSE IF enc.usePassword /\ enc.password = <<>>
                 THEN [e EXCEPT !.toast = ToastPasswordRequired]
                 ELSE [e EXCEPT !.isEncoding = TRUE, !.toast = "",
                                !.pc = IF enc.usePassword /\ enc.password # <<>>
                                       THEN "encrypt" ELSE "encode"]
    /\ UNCHANGED <<auth, cloud, upl>>
    /\ EncoderFrame

\* await encryptWithPassword(password, message);
\* messageToEncode = JSON.stringify(encryptedPayload)
HandleEncodeEncrypted ==
    /\ enc.pc = "encrypt"
    /\ \E ok \in BOOLEAN, byte \in {0, 255} :
          enc' = IF ok
                 THEN [enc EXCEPT
                         !.messageToEncode =
                             JSONStringify(encryptWithPassword(enc.password,
                                                               enc.message, byte)),
                         !.pc = "encode"]
                 ELSE EncodingFailed(enc)
    /\ UNCHANGED <<auth, cloud, upl>>
    /\ EncoderFrame

\* await encodeMessage(image, messageToEncode, algorithm, fileFormat);
\* setEncodedImage(encoded)
HandleEncodeEncoded ==
    /\ enc.pc = "encode"
    /\ LET r == EncodeOutcome([data |-> enc.image, msg |-> enc.messageToEncode,
                                algorithm |-> enc.algorithm,
                                fileFormat |-> enc.fileFormat, rnd |-> rounding])
       IN enc' = IF r.error = NoError
                 THEN [enc EXCEPT !.encodedImage = r.out, !.pc = "hash"]
                 ELSE EncodingFailed(enc)
    /\ UNCHANGED <<auth, cloud, upl>>
    /\ EncoderFrame

\* await generateHash(encoded); setHash(imageHash); if (isAuthenticated)
\* the encoded data URL is fetched, else the success toast.
HandleEncodeHashed ==
    /\ enc.pc = "hash"
    /\ \E ok \in BOOLEAN :
          enc' = IF ~ok THEN EncodingFailed(enc)
                 ELSE LET e == [enc EXCEPT
                                  !.imageHash = generateHash(enc.encodedImage),
                                  !.hash = generateHash(enc.encodedImage)]
                      IN IF ShouldUpload(enc.isAuthenticated)
                         THEN [e EXCEPT !.pc = "fetch"]
                         ELSE Finally([e EXCEPT !.toast = ToastEncodingSuccessful])
    /\ UNCHANGED <<auth, cloud, upl>>
    /\ EncoderFrame

\* await fetch(encoded); await response.blob(); encodedFile = new File(...);
\* uploadFile(encodedFile) is called.
HandleEncodeFetched ==
    /\ enc.pc = "fetch"
    /\ \E ok \in BOOLEAN :
          IF ok
          THEN \E now \in {1, 23} :
                 LET encodedFile == EncodedFile(now, enc.fileFormat)
                 IN /\ enc' = [enc EXCEPT !.encodedFile = encodedFile,
                                          !.pc = "uploadEncoded"]
                    /\ upl' = CallUploadFile(upl, cloud, encodedFile)
          ELSE /\ enc' = UploadFailed(enc)
               /\ UNCHANGED upl
    /\ UNCHANGED <<auth, cloud>>
    /\ EncoderFrame

\* The params object handleEncode passes to saveStegoHistory.
HistoryParams(e, stegoFileRowId, originalFileId) ==
    [original_file_id |-> originalFileId,
     stego_file_id |-> stegoFileRowId,
     algorithm |-> e.algorithm,
     encrypted |-> e.usePassword /\ e.password # <<>>,
     metadata |-> [filename |-> e.encodedFile.name, hash |-> e.imageHash,
                   fileFormat |-> e.fileFormat]]

\* saveStegoHistory(params) is called.
CallSaveStegoHistory(e, originalFileId) ==
    [e EXCEPT !.originalFileId = originalFileId,
              !.saved = HistoryParams(e, e.stegoFileRowId, originalFileId),
              !.pc = "saveHistory"]

\* stegoFileRow = await uploadFile(encodedFile);
\* setUploadedFileId(stegoFileRow.id); then the original file is uploaded if
\* there is one, else the history is saved.  A rejection goes to the catch
\* around the upload.
HandleEncodeUploaded ==
    /\ enc.pc = "uploadEncoded"
    /\ upl.pc \in {"resolved", "rejected"}
    /\ IF upl.pc = "rejected"
       THEN /\ enc' = UploadFailed(enc)
            /\ UNCHANGED upl
       ELSE LET e == [enc EXCEPT !.stegoFileRowId = upl.result.value.id,
                                 !.uploadedFileId = upl.result.value.id]
            IN IF enc.originalFile # NoFile
               THEN /\ enc' = [e EXCEPT !.pc = "uploadOriginal"]
                    /\ upl' = CallUploadFile(upl, cloud, enc.originalFile)
               ELSE /\ enc' = CallSaveStegoHistory(e, NullId)
                    /\ UNCHANGED upl
    /\ UNCHANGED <<auth, cloud>>
    /\ EncoderFrame

\* try { originalFileRow = await uploadFile(originalFile);
\* originalFileId = originalFileRow.id } catch (err) { console.warn };
\* saveStegoHistory is called either way.
HandleEncodeOriginalUploaded ==
    /\ enc.pc = "uploadOriginal"
    /\ upl.pc \in {"resolved", "rejected"}
    /\ enc' = IF upl.pc = "resolved"
              THEN CallSaveStegoHistory([enc EXCEPT !.originalUpload = "resolved"],
                                        upl.result.value.id)
              ELSE CallSaveStegoHistory([enc EXCEPT !.originalUpload = "rejected"],
                                        NullId)
    /\ UNCHANGED <<auth, cloud, upl>>
    /\ EncoderFrame

\* await saveStegoHistory(params): without a user it throws "Not
\* authenticated"; the insert gives the row or an error.  Then
\* refreshHistory() is called, which calls loadHistory when AuthProvider's
\* isAuthenticated is set.
HandleEncodeSaved ==
    /\ enc.pc = "saveHistory"
    /\ \E ok \in BOOLEAN :
          IF cloud.session = Null \/ ~ok
          THEN /\ enc' = UploadFailed(enc)
               /\ UNCHANGED <<cloud, auth>>
          ELSE /\ cloud' = [cloud EXCEPT
                              !.history = @ \cup {StegoHistoryRow(cloud.nextId,
                                                                  cloud.session,
                                                                  enc.saved)},
                              !.nextId = @ + 1]
               /\ enc' = [enc EXCEPT !.pc = "refresh"]
               /\ auth' = IF auth.isAuthenticated
                          THEN [auth EXCEPT !.pending = Spawn(@, AwaitHistoryUser)]
                          ELSE auth
    /\ UNCHANGED upl
    /\ EncoderFrame

\* await refreshHistory() is over when its loadHistory is; the success toast.
HandleEncodeRefreshed ==
    /\ enc.pc = "refresh"
    /\ auth.pending = NonePending
    /\ enc' = Finally([enc EXCEPT !.toast = ToastEncodingSuccessful])
    /\ UNCHANGED <<auth, cloud, upl>>
    /\ EncoderFrame

NextEncoderUI ==
    \/ HandleEncode
    \/ HandleEncodeEncrypted
    \/ HandleEncodeEncoded
    \/ HandleEncodeHashed
    \/ HandleEncodeFetched
    \/ UploadFileGetUser
    \/ UploadFileListBuckets
    \/ UploadFileStore
    \/ UploadFileDigest
    \/ UploadFileInsert
    \/ HandleEncodeUploaded
    \/ HandleEncodeOriginalUploaded
    \/ HandleEncodeSaved
    \/ FetchHistorySelects
    \/ LoadHistoryContinues
    \/ HandleEncodeRefreshed
SpecEncoderUI == InitEncoderUI /\ [][NextEncoderUI]_vars


\* C28: encode-then-upload ordering.  In handleEncode uploadFile is called
\* only when isAuthenticated is set and only after encodeMessage succeeded;
\* saveStegoHistory is called only after the upload of the encoded file
\* succeeded, and with the id of that file's row; when the upload of the
\* original file fails the history is still saved, with original_file_id
\* null; and a failed upload or history save leaves the encoded result and
\* its hash set.
UploadWasCalled == enc.encodedFile # NoFile

SaveWasCalled == enc.saved # NoSave

C28_EncodeThenUpload ==
    /\ UploadWasCalled =>
          /\ enc.isAuthenticated
          /\ LET r == encodeMessage(enc.image, enc.messageToEncode, enc.algorithm,
                                    enc.fileFormat, rounding)
             IN r.error = NoError /\ enc.encodedImage = r.out
          /\ enc.encodedImage # NoCarrier
    /\ SaveWasCalled =>
          /\ enc.saved.stego_file_id = enc.stegoFileRowId
          /\ enc.saved.stego_file_id = enc.uploadedFileId
          /\ \E row \in cloud.files :
                /\ row.id = enc.saved.stego_file_id
                /\ row.filename = enc.encodedFile.name
                /\ row.storage_key \in cloud.objects
    /\ enc.originalUpload = "rejected" =>
          /\ SaveWasCalled
          /\ enc.saved.original_file_id = NullId
          /\ enc.pc = "refresh" =>
                \E r \in cloud.history :
                    /\ r.stego_file_id = enc.stegoFileRowId
                    /\ r.original_file_id = NullId
    /\ enc.toast = ToastUploadFailed =>
          /\ enc.encodedImage # NoCarrier
          /\ enc.hash = generateHash(enc.encodedImage)

C28_Witness ==
    /\ enc.pc = "idle"
    /\ enc.toast = ToastEncodingSuccessful
    /\ enc.originalUpload = "rejected"
    /\ \E r \in cloud.history :
          r.stego_file_id = enc.uploadedFileId /\ r.original_file_id = NullId


(***************************************************************************)
(* StegoDecoder.handleDecode (src/src/components/StegoDecoder.tsx): one    *)
(* step per await.                                                         *)
(***************************************************************************)
MaxDecodeRuns == 1

ToastMissingInput == "Missing input"
ToastDecodingFailed == "Decoding failed"
ToastDecodingSuccessful == "Decoding successful"

\* finally { setIsDecoding(false) }
FinallyDecode(d) == [d EXCEPT !.isDecoding = FALSE, !.pc = "idle"]

\* The catch of handleDecode.
DecodingFailed(d) == FinallyDecode([d EXCEPT !.toast = ToastDecodingFailed])

IsPrefix(p, s) == Len(p) <= Len(s) /\ SubSeq(s, 1, Len(p)) = p

\* JSON.parse(message) gives an object with salt, iv and ciphertext: of the
\* messages met here, those written by JSON.stringify(encryptedPayload).
IsEncryptedPayload(msg) ==
    /\ IsPrefix(<<123, 34, 115, 97, 108, 116, 34, 58, 91>>, msg)
    /\ msg[Len(msg)] = 125

\* setDecodedMessage(message); the JSON.parse test; generateHash(image) is
\* awaited next.
MessageDecoded(d, algorithm, msg) ==
    [d EXCEPT !.algorithm = algorithm,
              !.decodedMessage = msg,
              !.isEncrypted = IsEncryptedPayload(msg),
              !.decryptedMessage = IF IsEncryptedPayload(msg) THEN <<>> ELSE msg,
              !.pc = "hash"]

AlternativeAlgorithm(algorithm) ==
    IF algorithm = "audio_phase" THEN "audio_echo" ELSE "audio_phase"

\* The files and algorithms a user gives the decoder: no file, a plain and an
\* encoded image, a plain and an encoded recording.
DecoderInputs ==
    {[image |-> NoCarrier, algorithm |-> "lsb", fileFormat |-> "image"],
     [image |-> MakeImage(9, 6, "ramp"), algorithm |-> "lsb", fileFormat |-> "image"],
     [image |-> encodeMessage(MakeImage(9, 6, "ramp"), <<65>>, "lsb", "image",
                              ExactTies).out,
      algorithm |-> "lsb", fileFormat |-> "image"],
     [image |-> MakeAudio(104, 1, "silence"), algorithm |-> "audio_phase",
      fileFormat |-> "audio"],
     [image |-> encodeMessage(MakeAudio(104, 1, "silence"), <<65>>, "audio_phase",
                              "audio", ExactTies).out,
      algorithm |-> "audio_echo", fileFormat |-> "audio"]}

\* The calls of decodeMessage that handleDecode makes on these inputs, and
\* what each settles to.
DecodeCalls ==
    {[data |-> in.image, algorithm |-> a, fileFormat |-> in.fileFormat,
      rnd |-> ExactTies] :
        in \in {i \in DecoderInputs : i.image # NoCarrier},
        a \in {"lsb", "audio_phase", "audio_echo"}}

DecodeOutcomes ==
    {[call |-> c,
      settles |-> decodeMessage(c.data, c.algorithm, c.fileFormat, c.rnd).result] :
        c \in DecodeCalls}

DecodeOutcome(c) == (CHOOSE o \in DecodeOutcomes : o.call = c).settles

DecodeCall(d, algorithm, rnd) ==
    [data |-> d.image, algorithm |-> algorithm, fileFormat |-> d.fileFormat,
     rnd |-> rnd]

DecoderIdle(in) ==
    [image |-> in.image, algorithm |-> in.algorithm, fileFormat |-> in.fileFormat,
     decodedMessage |-> <<>>, decryptedMessage |-> <<>>, isEncrypted |-> FALSE,
     hash |-> NoHash, verified |-> FALSE, isDecoding |-> FALSE,
     pc |-> "idle", toast |-> "", runs |-> 0]

InitDecoderUI ==
    /\ CodecIdle({ExactTies})
    /\ parity = NoParity
    /\ enc = NoEncodeRun
    /\ upl = UploadIdle
    /\ cloud = EmptyCloud(Null)
    /\ auth = AuthMounted(Null)
    /\ dec \in {DecoderIdle(in) : in \in DecoderInputs}

DecoderFrame == UNCHANGED <<codecVars, parity, auth, enc, cloud, upl>>

\* The button is enabled: disabled={!image || isDecoding}.  handleDecode up
\* to its first await: without a file a toast and return; otherwise
\* setIsDecoding(true), setDecryptedMessage("") and decodeMessage is awaited.
HandleDecodeBegins ==
    /\ dec.pc = "idle"
    /\ ~dec.isDecoding
    /\ dec.runs < MaxDecodeRuns
    /\ dec' = IF dec.image = NoCarrier
              THEN [dec EXCEPT !.runs = @ + 1, !.toast = ToastMissingInput]
              ELSE [dec EXCEPT !.runs = @ + 1, !.isDecoding = TRUE,
                               !.decryptedMessage = <<>>, !.toast = "",
                               !.pc = "decode"]
    /\ DecoderFrame

\* message = await decodeMessage(image, algorithm, fileFormat): for audio a
\* rejection is caught and the other audio algorithm is awaited.
HandleDecodeDecoded ==
    /\ dec.pc = "decode"
    /\ LET r == DecodeOutcome(DecodeCall(dec, dec.algorithm, rounding))
       IN dec' = IF r.ok THEN MessageDecoded(dec, dec.algorithm, r.value)
                 ELSE IF dec.fileFormat = "audio"
                 THEN [dec EXCEPT !.pc = "decodeAlternative"]
                 ELSE DecodingFailed(dec)
    /\ DecoderFrame

\* message = await decodeMessage(image, alternativeAlgorithm, fileFormat);
\* setAlgorithm(alternativeAlgorithm)
HandleDecodeRetried ==
    /\ dec.pc = "decodeAlternative"
    /\ LET alternativeAlgorithm == AlternativeAlgorithm(dec.algorithm)
           r == DecodeOutcome(DecodeCall(dec, alternativeAlgorithm, rounding))
       IN dec' = IF r.ok THEN MessageDecoded(dec, alternativeAlgorithm, r.value)
                 ELSE DecodingFailed(dec)
    /\ DecoderFrame

\* imageHash = await generateHash(image); setHash; setVerified(true); toast
HandleDecodeHashed ==
    /\ dec.pc = "hash"
    /\ \E ok \in BOOLEAN :
          dec' = IF ok
                 THEN FinallyDecode([dec EXCEPT !.hash = generateHash(dec.image),
                                                !.verified = TRUE,
                                                !.toast = ToastDecodingSuccessful])
                 ELSE DecodingFailed(dec)
    /\ DecoderFrame

(***************************************************************************)
(* The encoder or the decoder on screen, every awaited call settling       *)
(* sooner or later.                                                        *)
(***************************************************************************)
InitBusy == InitEncoderUI \/ InitDecoderUI

NextBusy ==
    \/ NextEncoderUI
    \/ HandleDecodeBegins
    \/ HandleDecodeDecoded
    \/ HandleDecodeRetried
    \/ HandleDecodeHashed

AwaitsSettle ==
    /\ WF_vars(HandleEncodeEncrypted)
    /\ WF_vars(HandleEncodeEncoded)
    /\ WF_vars(HandleEncodeHashed)
    /\ WF_vars(HandleEncodeFetched)
    /\ WF_vars(UploadFileGetUser)
    /\ WF_vars(UploadFileListBuckets)
    /\ WF_vars(UploadFileStore)
    /\ WF_vars(UploadFileDigest)
    /\ WF_vars(UploadFileInsert)
    /\ WF_vars(HandleEncodeUploaded)
    /\ WF_vars(HandleEncodeOriginalUploaded)
    /\ WF_vars(HandleEncodeSaved)
    /\ WF_vars(FetchHistorySelects)
    /\ WF_vars(LoadHistoryContinues)
    /\ WF_vars(HandleEncodeRefreshed)
    /\ WF_vars(HandleDecodeDecoded)
    /\ WF_vars(HandleDecodeRetried)
    /\ WF_vars(HandleDecodeHashed)

SpecBusy == InitBusy /\ [][NextBusy]_vars /\ AwaitsSettle

\* C29: the busy flag is always released.  Every run of handleEncode that
\* sets isEncoding, and every run of handleDecode that sets isDecoding,
\* eventually sets it back to false, whether encryption, encoding or
\* decoding, upload or history saving succeeds or fails; a run that the input
\* validation rejects never sets it.
EncodeInputsRejected ==
    \/ enc.image = NoCarrier
    \/ enc.message = <<>>
    \/ enc.usePassword /\ enc.password = <<>>

C29_BusyFlagReleased ==
    /\ enc.isEncoding ~> ~enc.isEncoding
    /\ dec.isDecoding ~> ~dec.isDecoding
    /\ [][/\ (enc.pc = "idle" /\ EncodeInputsRejected) => ~enc'.isEncoding
          /\ (dec.pc = "idle" /\ dec.image = NoCarrier) => ~dec'.isDecoding]_vars

C29_Witness ==
    /\ enc.pc = "idle"
    /\ enc.runs > 0
    /\ enc.toast = ToastUploadFailed
    /\ enc.saved # NoSave
    /\ ~enc.isEncoding

====
